---- MODULE Spec2Model ----
(***************************************************************************)
(* dnstwist: the scanner pool (Scanner threads draining a queue of         *)
(* permutations), the per-job stages of Scanner.run, the SMTP dialogue of  *)
(* Scanner._mxcheck, and the main thread of run() with its signal handler  *)
(* (or, for the web application, Session.scan / Session.stop).             *)
(***************************************************************************)
EXTENDS Integers, Sequences, FiniteSets, TLC

\* ------------------------------------------------------------------ bounds
NumWorkers == 2
NumPerms == 1

Workers == 1..NumWorkers
\* permutation 0 is the seed itself (tag "*original"); 1..NumPerms are fuzzed
Perms == 0..NumPerms
SeedDomain == 0
NoTask == -1
\* a Permutation without the key 'ssdeep' / 'tlsh'
NoScore == -1

\* ------------------------------------------------------------------ state
VARIABLES
    mode,       \* "cli": run(); "webapp": a Session of webapp.py
    nthreads,   \* args.threads / Session.thread_count
    domains,    \* the permutations handed to the scan (fuzz.domains)
    opt,        \* the option_* flags copied into every Scanner
    jobs,       \* queue.Queue of permutations
    task,       \* the Permutation dicts, by permutation
    done,       \* number of task_done() calls made for each permutation
    mainpc,     \* position of the main thread in run() / of the Session
    nextw,      \* next worker the start loop creates
    threads,    \* the list `threads` (run) / Session.threads
    stopEv,     \* Scanner._stop_event of each worker
    pc,         \* position of each worker thread in Scanner.run
    cur,        \* local `task` of each worker (NoTask: none)
    loc,        \* locals nxdomain, dns_ns, dns_a, dns_aaaa, dns_mx
    sock,       \* socket of _mxcheck: "none", "open", "closed"
    mxi,        \* index of the command the _mxcheck loop is at
    sent,       \* commands sent on the socket in the current probe
    replies,    \* replies read from the socket in the current probe
    qlog,       \* record types queried for the current job, in order
    nsres,      \* outcome of the NS query of the current job
    stages,     \* stages entered for the current job, in order
    cause,      \* why a worker thread died ("none" while it has not)
    claimed,    \* workers that dequeued each permutation
    writers,    \* workers that wrote an annotation of each permutation
    baseline,   \* run(): the LSH algorithm and how the baseline fetch went
    fetched,    \* LSH stage: how the page fetch of each permutation went
    score,      \* task['ssdeep'] / task['tlsh'] of each permutation
    listed,     \* run(): the flags and the result of fuzz.permutations()
    \* Fuzzer: the permutation engine
    seed,       \* Fuzzer.domain, a label (sequence of characters)
    tld,        \* Fuzzer.tld
    tlds,       \* Fuzzer.tld_dictionary
    fuzzers,    \* the argument of Fuzzer.generate
    strict,     \* TRUE: the idna package is installed; FALSE: the codec
    fzdomains,  \* Fuzzer.domains
    fzpc,       \* position in Fuzzer.generate
    fzi,        \* index of the fuzzer the loop of generate is at
    ordered,    \* the list Fuzzer.permutations() returned
    subdomain,  \* Fuzzer.subdomain
    first,      \* Fuzzer.domains as the previous call of generate left it
    calls,      \* the calls of generate so far
    \* Format: csv() and a reader of its output
    rows,       \* Format.domains
    text,       \* the text Format.csv() returned, a list of characters
    parsed,     \* the rows of cells a CSV reader makes of that text
    fmtpc,      \* position of the formatter
    \* webapp.py: the sessions and the requests in flight
    sessions,   \* the module-level list `sessions`
    sess,       \* each Session made: jobs left on its queue, its threads
    req,        \* position of each request handler and of the janitor
    \* Whois.query
    whpc,       \* position in Whois.query
    whstack,    \* the server of each call of query that has not returned
    whois_tld   \* Whois.whois_tld: the server known for the TLD of the query

vars == <<mode, nthreads, domains, opt, jobs, task, done, mainpc, nextw, threads, stopEv, pc, cur,
          loc, sock, mxi, sent, replies, qlog, nsres, stages, cause, claimed,
          writers, baseline, fetched, score, listed,
          seed, tld, tlds, fuzzers, strict, fzdomains, fzpc, fzi, ordered,
          subdomain, first, calls,
          rows, text, parsed, fmtpc,
          sessions, sess, req, whpc, whstack, whois_tld>>

confVars == <<mode, nthreads, domains, opt, baseline>>
lshVars == <<fetched, score>>
engineVars == <<seed, tld, tlds, fuzzers, strict, fzdomains, fzpc, fzi,
                ordered, subdomain, first, calls>>
formatVars == <<rows, text, parsed, fmtpc>>
webVars == <<sessions, sess, req>>
whoisVars == <<whpc, whstack, whois_tld>>
\* what the stages before and after the scan own
offline == <<listed, engineVars, formatVars, webVars, whoisVars>>
mainVars == <<mainpc, nextw, threads>>
probeVars == <<sock, mxi, sent, replies>>
dnsLog == <<qlog, nsres>>

\* ------------------------------------------------------------ data model
\* A DNS field of a Permutation is absent, the sentinel ['!ServFail'], or a
\* real answer; the other annotations are present (TRUE) or not.
NewPermutation(p) ==
    [fuzzer |-> IF p = SeedDomain THEN "*original" ELSE "fuzzed",
     domain |-> p,
     dns_ns |-> "absent", dns_a |-> "absent", dns_aaaa |-> "absent",
     dns_mx |-> "absent",
     geoip |-> FALSE, banner_http |-> FALSE, banner_smtp |-> FALSE,
     mx_spy |-> FALSE, phash |-> FALSE, lsh |-> FALSE]

OptionSets ==
    [extdns : BOOLEAN, mxcheck : BOOLEAN, geoip : BOOLEAN, banners : BOOLEAN,
     phash : BOOLEAN, lsh : BOOLEAN]

\* args.lsh
LshAlgorithms == {"ssdeep", "tlsh"}
\* the baseline fetch: UrlOpener raises, the digest is blank, or it is usable
BaselineOutcomes == {"error", "blank", "ok"}
\* r.url of a fetched page: the baseline's URL, with or without a query
\* string, or another one
PageUrls == {"seed", "seed?q", "other"}
\* r.url.split('?')[0]
StripQuery(u) == IF u = "seed?q" THEN "seed" ELSE u
\* lsh_effective_url = r.url.split('?')[0] of the baseline fetch
lsh_effective_url == StripQuery("seed?q")
\* results of ssdeep.compare and of tlsh.diff
SsdeepScores == {0, 50, 100}
TlshDiffs == {0, 1, 300, 600}

\* len(self) of a Permutation: fuzzer, domain and the keys stored since
DnsFields == {"dns_ns", "dns_a", "dns_aaaa", "dns_mx"}
Annotations == {"geoip", "banner_http", "banner_smtp", "mx_spy", "phash",
                "lsh"}
KeyCount(t) ==
    2 + Cardinality({f \in DnsFields : t[f] # "absent"})
      + Cardinality({f \in Annotations : t[f]})

\* Permutation.is_registered
is_registered(t) == KeyCount(t) > 2

\* the commands of the _mxcheck loop, in order
SmtpCommands == <<"EHLO", "MAIL FROM", "RCPT TO">>

\* outcomes of one resolve() call
RdOutcomes == {"answer", "nxdomain", "servfail", "error"}
\* outcomes of socket.getaddrinfo: errno -3, another failure, or addresses
AddrOutcomes == {"eai_again", "error", "v4", "v6", "v4v6"}
\* outcomes of sock.recv(512) in _mxcheck
RecvOutcomes == {"2xx", "other", "empty", "exception"}

\* for task in domains: jobs.put(task), in the iteration order of the set
RECURSIVE Enqueued(_)
Enqueued(S) ==
    IF S = {} THEN <<>>
    ELSE LET x == CHOOSE y \in S : \A z \in S : y <= z
         IN <<x>> \o Enqueued(S \ {x})

IsAlive(w) == pc[w] \notin {"new", "exited", "dead"}

\* --------------------------------------------------------- worker helpers
Goto(w, l) == pc' = [pc EXCEPT ![w] = l]

\* task[field] = val by worker w on the permutation it holds
AnnotateSeed(w, field, val) ==
    /\ task' = [task EXCEPT ![SeedDomain][field] = val]
    /\ writers' = [writers EXCEPT ![cur[w]] = @ \cup {w}]
Annotate(w, field, val) ==
    /\ task' = [task EXCEPT ![cur[w]][field] = val]
    /\ writers' = [writers EXCEPT ![cur[w]] = @ \cup {w}]

NoAnnotation == UNCHANGED <<task, writers>>

Enter(w, stage) == stages' = [stages EXCEPT ![w] = Append(@, stage)]

\* an exception that nothing in Scanner.run catches ends the thread
Die(w, why) ==
    /\ Goto(w, "dead")
    /\ cause' = [cause EXCEPT ![w] = why]

\* queue.Queue.get(block=False) on a non-empty queue: what stays queued
QueueGetKeep(q) == q
QueueGet(q) == Tail(q)

\* the locals Scanner.run assigns at the top of each iteration
ResetLocals(l) ==
    IF opt.extdns
    THEN [nxdomain |-> "False", dns_ns |-> "False", dns_mx |-> "False",
          dns_a |-> FALSE, dns_aaaa |-> FALSE]
    ELSE [l EXCEPT !.dns_a = FALSE, !.dns_aaaa = FALSE]

\* ------------------------------------------------- Scanner.run: the loop
\* set-up before the loop: Resolver(), geoip(), HeadlessBrowser()
WorkerInit(w) ==
    /\ pc[w] = "init"
    /\ \/ Goto(w, "check") /\ UNCHANGED cause
       \/ /\ opt.extdns \/ opt.geoip \/ opt.phash
          /\ Die(w, "init")
    /\ UNCHANGED <<confVars, lshVars, offline, mainVars, jobs, task, done, stopEv, cur, loc,
                   probeVars, dnsLog, stages, claimed, writers>>

\* while not self.is_stopped():
CheckStopped(w) ==
    /\ pc[w] = "check"
    /\ Goto(w, IF stopEv[w] THEN "exited" ELSE "get")
    /\ UNCHANGED <<confVars, lshVars, offline, mainVars, jobs, task, done, stopEv, cur, loc,
                   probeVars, dnsLog, stages, cause, claimed, writers>>

\* task = self.jobs.get(block=False); on queue.Empty: self.stop(); return
Get(w) ==
    /\ pc[w] = "get"
    /\ IF jobs = <<>>
       THEN /\ stopEv' = [stopEv EXCEPT ![w] = TRUE]
            /\ Goto(w, "exited")
            /\ UNCHANGED <<jobs, cur, loc, probeVars, dnsLog, stages, claimed>>
       ELSE /\ jobs' = QueueGet(jobs)
            /\ cur' = [cur EXCEPT ![w] = Head(jobs)]
            /\ claimed' = [claimed EXCEPT ![Head(jobs)] = @ \cup {w}]
            /\ loc' = [loc EXCEPT ![w] = ResetLocals(@)]
            /\ Goto(w, IF opt.extdns THEN "resolve_ns" ELSE "getaddrinfo")
            /\ UNCHANGED <<stopEv, probeVars, dnsLog, stages>>
    /\ UNCHANGED <<confVars, lshVars, offline, mainVars, task, done, cause, writers>>

\* self.jobs.task_done()
TaskDone(w) ==
    /\ pc[w] = "task_done"
    /\ done' = [done EXCEPT ![cur[w]] = @ + 1]
    /\ Goto(w, "check")
    /\ sock' = [sock EXCEPT ![w] = "none"]
    /\ mxi' = [mxi EXCEPT ![w] = 0]
    /\ sent' = [sent EXCEPT ![w] = <<>>]
    /\ replies' = [replies EXCEPT ![w] = <<>>]
    /\ qlog' = [qlog EXCEPT ![w] = <<>>]
    /\ nsres' = [nsres EXCEPT ![w] = "none"]
    /\ stages' = [stages EXCEPT ![w] = <<>>]
    /\ UNCHANGED <<confVars, lshVars, offline, mainVars, jobs, task, stopEv, cur, loc, cause,
                   claimed, writers>>

\* ------------------------------------- Scanner.run: the stage conditions
\* if dns_a is True: (GeoIP and the HTTP banner)
AddressNotNeeded(l) == TRUE
HasARecord(l) == l.dns_a

\* if dns_a or dns_aaaa: (pHash and LSH)
FetchesAlways(l) == TRUE
HasAddress(l) == l.dns_a \/ l.dns_aaaa

\* if dns_mx is True: if domain != self.url.domain: (before _mxcheck)
ProbesMxAnyDomain(l, p) == l.dns_mx = "True"
ProbesMx(l, p) == l.dns_mx = "True" /\ task[p].domain # SeedDomain

\* Reading dns_mx where no assignment has bound it raises UnboundLocalError.
\* The tests between two stages do no I/O: a worker goes straight from one
\* stage to the next one whose tests pass (or that raises).
AfterPhash(l) == IF opt.lsh /\ HasAddress(l) THEN "lsh" ELSE "task_done"

AfterBanners(l) == IF opt.phash /\ HasAddress(l) THEN "phash" ELSE AfterPhash(l)

AfterBannerHttp(l) ==
    IF l.dns_mx # "False" THEN "banner_smtp" ELSE AfterBanners(l)

AfterGeoip(l) ==
    IF ~opt.banners THEN AfterBanners(l)
    ELSE IF HasARecord(l) THEN "banner_http" ELSE AfterBannerHttp(l)

AfterMxcheck(l) == IF opt.geoip /\ HasARecord(l) THEN "geoip" ELSE AfterGeoip(l)

AfterDns(l, p) ==
    IF opt.mxcheck /\ (l.dns_mx = "unbound" \/ ProbesMx(l, p))
    THEN "mxcheck" ELSE AfterMxcheck(l)

\* ----------------------------------------------- Scanner.run: DNS stage
\* if nxdomain is False: (the A and AAAA queries)
QueriesAddresses(l) == l.nxdomain = "False"

\* if nxdomain is False and dns_ns is True: (the MX query)
QueriesMxAlways(l) == l.nxdomain = "False"
QueriesMx(l) == l.nxdomain = "False" /\ l.dns_ns = "True"

\* what one resolve() leaves in the record: an answer is stored,
\* NoNameservers stores the sentinel, NXDOMAIN or any other DNSException
\* stores nothing
StoreAnswer(w, field, r) ==
    CASE r = "answer" -> Annotate(w, field, "real")
      [] r = "servfail" -> Annotate(w, field, "servfail")
      [] OTHER -> NoAnnotation

Query(w, rdtype) == qlog' = [qlog EXCEPT ![w] = Append(@, rdtype)]

ResolveNS(w) ==
    /\ pc[w] = "resolve_ns"
    /\ \E r \in RdOutcomes :
         LET nl == CASE r = "answer" -> [loc[w] EXCEPT !.dns_ns = "True"]
                     [] r = "nxdomain" -> [loc[w] EXCEPT !.nxdomain = "True"]
                     [] OTHER -> loc[w]
         IN /\ StoreAnswer(w, "dns_ns", r)
            /\ loc' = [loc EXCEPT ![w] = nl]
            /\ nsres' = [nsres EXCEPT ![w] = r]
            /\ Goto(w, IF QueriesAddresses(nl) THEN "resolve_a"
                       ELSE IF QueriesMx(nl) THEN "resolve_mx"
                       ELSE AfterDns(nl, cur[w]))
    /\ Query(w, "NS")
    /\ Enter(w, "dns")
    /\ UNCHANGED <<confVars, lshVars, offline, mainVars, jobs, done, stopEv, cur, probeVars,
                   cause, claimed>>

ResolveA(w) ==
    /\ pc[w] = "resolve_a"
    /\ \E r \in RdOutcomes :
         /\ StoreAnswer(w, "dns_a", r)
         /\ loc' = [loc EXCEPT ![w].dns_a = IF r = "answer" THEN TRUE ELSE @]
    /\ Query(w, "A")
    /\ Goto(w, "resolve_aaaa")
    /\ UNCHANGED <<confVars, lshVars, offline, mainVars, jobs, done, stopEv, cur, probeVars,
                   nsres, stages, cause, claimed>>

ResolveAAAA(w) ==
    /\ pc[w] = "resolve_aaaa"
    /\ \E r \in RdOutcomes :
         LET nl == [loc[w] EXCEPT !.dns_aaaa = IF r = "answer" THEN TRUE ELSE @]
         IN /\ StoreAnswer(w, "dns_aaaa", r)
            /\ loc' = [loc EXCEPT ![w] = nl]
            /\ Goto(w, IF QueriesMx(nl) THEN "resolve_mx"
                       ELSE AfterDns(nl, cur[w]))
    /\ Query(w, "AAAA")
    /\ UNCHANGED <<confVars, lshVars, offline, mainVars, jobs, done, stopEv, cur, probeVars,
                   nsres, stages, cause, claimed>>

ResolveMX(w) ==
    /\ pc[w] = "resolve_mx"
    /\ \E r \in RdOutcomes :
         LET nl == [loc[w] EXCEPT !.dns_mx = IF r = "answer" THEN "True" ELSE @]
         IN /\ StoreAnswer(w, "dns_mx", r)
            /\ loc' = [loc EXCEPT ![w] = nl]
            /\ Goto(w, AfterDns(nl, cur[w]))
    /\ Query(w, "MX")
    /\ UNCHANGED <<confVars, lshVars, offline, mainVars, jobs, done, stopEv, cur, probeVars,
                   nsres, stages, cause, claimed>>

\* without dnspython: socket.getaddrinfo(domain, None, proto=IPPROTO_TCP)
GetAddrInfo(w) ==
    /\ pc[w] = "getaddrinfo"
    /\ \E r \in AddrOutcomes :
         LET p == cur[w]
             v4 == r \in {"v4", "v4v6"}
             v6 == r \in {"v6", "v4v6"}
             nl == [loc[w] EXCEPT
                      !.dns_a = IF v4 /\ task[p].dns_a = "absent" THEN TRUE ELSE @,
                      !.dns_aaaa = IF v6 /\ task[p].dns_aaaa = "absent"
                                   THEN TRUE ELSE @]
         IN /\ task' = [task EXCEPT
                  ![p].dns_a = IF r = "eai_again" THEN "servfail"
                               ELSE IF v4 THEN "real" ELSE @,
                  ![p].dns_aaaa = IF v6 THEN "real" ELSE @]
            /\ writers' = [writers EXCEPT ![p] =
                  IF r = "error" THEN @ ELSE @ \cup {w}]
            /\ loc' = [loc EXCEPT ![w] = nl]
            /\ Goto(w, AfterDns(nl, p))
    /\ Enter(w, "dns")
    /\ UNCHANGED <<confVars, lshVars, offline, mainVars, jobs, done, stopEv, cur, probeVars,
                   dnsLog, cause, claimed>>

\* ------------------------------------------ Scanner.run: MX-probe stage
\* if self.option_mxcheck: if dns_mx is True: ... self._mxcheck(...), up to
\* sock.connect((mxhost, 25)), whose failure returns False
MxcheckStage(w) ==
    /\ pc[w] = "mxcheck"
    /\ IF loc[w].dns_mx = "unbound"
       THEN Die(w, "unbound") /\ UNCHANGED <<stages, sock, mxi>>
       ELSE /\ Enter(w, "mxcheck")
            /\ UNCHANGED cause
            /\ \/ /\ sock' = [sock EXCEPT ![w] = "open"]
                  /\ mxi' = [mxi EXCEPT ![w] = 1]
                  /\ Goto(w, "mx_recv")
               \/ /\ Goto(w, AfterMxcheck(loc[w]))
                  /\ UNCHANGED <<sock, mxi>>
    /\ UNCHANGED <<confVars, lshVars, offline, mainVars, jobs, task, done, stopEv, cur, loc,
                   sent, replies, dnsLog, claimed, writers>>

\* the reply that lets the loop go on to sock.send: resp[0] == 0x32
Accepts(r) == r = "2xx"

\* _mxcheck: resp = sock.recv(512) and the three break conditions, after
\* which the socket is closed and False returned
MxRecv(w) ==
    /\ pc[w] = "mx_recv"
    /\ \E r \in RecvOutcomes :
         /\ replies' = [replies EXCEPT ![w] = Append(@, r)]
         /\ IF Accepts(r)
            THEN Goto(w, "mx_send") /\ UNCHANGED sock
            ELSE /\ sock' = [sock EXCEPT ![w] = "closed"]
                 /\ Goto(w, AfterMxcheck(loc[w]))
    /\ UNCHANGED <<confVars, lshVars, offline, mainVars, jobs, task, done, stopEv, cur, loc,
                   mxi, sent, dnsLog, stages, cause, claimed, writers>>

\* _mxcheck: sock.send(cmd.encode()); after the last command the loop's
\* else clause closes the socket and returns True, and run sets mx_spy.
\* An exception of send is caught neither in _mxcheck nor in run.
MxSend(w) ==
    /\ pc[w] = "mx_send"
    /\ \/ /\ sent' = [sent EXCEPT ![w] = Append(@, SmtpCommands[mxi[w]])]
          /\ IF mxi[w] = Len(SmtpCommands)
             THEN /\ sock' = [sock EXCEPT ![w] = "closed"]
                  /\ Annotate(w, "mx_spy", TRUE)
                  /\ Goto(w, AfterMxcheck(loc[w]))
                  /\ UNCHANGED mxi
             ELSE /\ mxi' = [mxi EXCEPT ![w] = @ + 1]
                  /\ Goto(w, "mx_recv")
                  /\ NoAnnotation
                  /\ UNCHANGED sock
          /\ UNCHANGED cause
       \/ /\ Die(w, "send")
          /\ NoAnnotation
          /\ UNCHANGED <<sock, mxi, sent>>
    /\ UNCHANGED <<confVars, lshVars, offline, mainVars, jobs, done, stopEv, cur, loc, replies,
                   dnsLog, stages, claimed>>

\* --------------------------- Scanner.run: GeoIP, banners, pHash and LSH
\* A stage that ran either stores its annotation or, having failed, not.
Outcome(w, field) ==
    \/ Annotate(w, field, TRUE)
    \/ NoAnnotation

\* geo.country_by_addr(task['dns_a'][0]): raises, no country, or a country
GeoipStage(w) ==
    /\ pc[w] = "geoip"
    /\ Outcome(w, "geoip")
    /\ Enter(w, "geoip")
    /\ Goto(w, AfterGeoip(loc[w]))
    /\ UNCHANGED <<confVars, lshVars, offline, mainVars, jobs, done, stopEv, cur, loc, probeVars,
                   dnsLog, cause, claimed>>

\* self._banner_http(task['dns_a'][0], domain): a Server header or ''
BannerHttp(w) ==
    /\ pc[w] = "banner_http"
    /\ Outcome(w, "banner_http")
    /\ Enter(w, "banners")
    /\ Goto(w, AfterBannerHttp(loc[w]))
    /\ UNCHANGED <<confVars, lshVars, offline, mainVars, jobs, done, stopEv, cur, loc, probeVars,
                   dnsLog, cause, claimed>>

\* if dns_mx is True: self._banner_smtp(task['dns_mx'][0]): a 220 greeting
\* or ''
BannerSmtp(w) ==
    /\ pc[w] = "banner_smtp"
    /\ IF loc[w].dns_mx = "unbound"
       THEN Die(w, "unbound") /\ NoAnnotation /\ UNCHANGED stages
       ELSE /\ Outcome(w, "banner_smtp")
            /\ Enter(w, "banners")
            /\ Goto(w, AfterBanners(loc[w]))
            /\ UNCHANGED cause
    /\ UNCHANGED <<confVars, lshVars, offline, mainVars, jobs, done, stopEv, cur, loc, probeVars,
                   dnsLog, claimed>>

\* browser.get / browser.screenshot raise, or the pHash score is stored
PhashStage(w) ==
    /\ pc[w] = "phash"
    /\ Outcome(w, "phash")
    /\ Enter(w, "phash")
    /\ Goto(w, AfterPhash(loc[w]))
    /\ UNCHANGED <<confVars, lshVars, offline, mainVars, jobs, done, stopEv, cur, loc, probeVars,
                   dnsLog, cause, claimed>>

\* int(100 - (min(tlsh.diff(...), 300)/3))
TlshScoreUncapped(diff) == (300 - diff) \div 3
TlshScore(diff) == (300 - (IF diff < 300 THEN diff ELSE 300)) \div 3

LshScores(alg) ==
    IF alg = "ssdeep" THEN SsdeepScores ELSE {TlshScore(d) : d \in TlshDiffs}

\* if r.url.split('?')[0] != self.lsh_effective_url
ComparesAnyUrl(u) == TRUE
DiffersFromBaseline(u) == StripQuery(u) # lsh_effective_url

\* UrlOpener(...) raises, or the URL is the baseline's, or the digest is
\* blank (no score), or the score is stored
LshStage(w) ==
    /\ pc[w] = "lsh"
    /\ \E f \in {"error"} \cup PageUrls :
         /\ fetched' = [fetched EXCEPT ![cur[w]] = f]
         /\ IF f # "error" /\ DiffersFromBaseline(f)
            THEN \/ \E s \in LshScores(baseline.alg) :
                      /\ Annotate(w, "lsh", TRUE)
                      /\ score' = [score EXCEPT ![cur[w]] = s]
                 \/ NoAnnotation /\ UNCHANGED score
            ELSE NoAnnotation /\ UNCHANGED score
    /\ Enter(w, "lsh")
    /\ Goto(w, "task_done")
    /\ UNCHANGED <<confVars, offline, mainVars, jobs, done, stopEv, cur, loc, probeVars,
                   dnsLog, cause, claimed>>

Worker(w) ==
    \/ WorkerInit(w) \/ CheckStopped(w) \/ Get(w) \/ TaskDone(w)
    \/ ResolveNS(w) \/ ResolveA(w) \/ ResolveAAAA(w) \/ ResolveMX(w)
    \/ GetAddrInfo(w)
    \/ MxcheckStage(w) \/ MxRecv(w) \/ MxSend(w)
    \/ GeoipStage(w) \/ BannerHttp(w) \/ BannerSmtp(w)
    \/ PhashStage(w) \/ LshStage(w)

\* ------------------------------------------------ main thread of run()
workerVars == <<pc, cur, loc, probeVars, dnsLog, stages, cause, claimed,
                writers>>

\* lsh_init / lsh_effective_url: the baseline fetch of run(), then the
\* permutations are put on the queue. A failed fetch ends the run
\* (sys.exit(1), or the exception is re-raised to the caller of run());
\* a blank digest sets args.lsh = None, so that no worker gets option_lsh.
BaselineFetch ==
    /\ mainpc = "baseline"
    /\ IF opt.lsh
       THEN \E a \in LshAlgorithms, r \in BaselineOutcomes :
              /\ baseline' = [alg |-> IF r = "ok" THEN a ELSE "none",
                               outcome |-> r]
              /\ IF r = "error"
                 THEN mainpc' = "aborted" /\ UNCHANGED <<opt, jobs>>
                 ELSE /\ opt' = [opt EXCEPT !.lsh = (r = "ok")]
                      /\ jobs' = Enqueued(domains)
                      /\ mainpc' = "start"
       ELSE /\ jobs' = Enqueued(domains)
            /\ mainpc' = "start"
            /\ UNCHANGED <<opt, baseline>>
    /\ UNCHANGED <<mode, nthreads, domains, lshVars, offline, task, done,
                   nextw, threads, stopEv, workerVars>>

\* worker = Scanner(jobs); ...; worker.start()
StartWorker ==
    /\ mainpc = "start"
    /\ pc' = [pc EXCEPT ![nextw] = "init"]
    /\ mainpc' = "append"
    /\ UNCHANGED <<confVars, lshVars, offline, jobs, task, done, nextw, threads, stopEv, cur,
                   loc, probeVars, dnsLog, stages, cause, claimed, writers>>

\* threads.append(worker), and the end of the for loop over range(threads)
AppendWorker ==
    /\ mainpc = "append"
    /\ threads' = threads \cup {nextw}
    /\ nextw' = nextw + 1
    /\ mainpc' = IF nextw = nthreads THEN "wait" ELSE "start"
    /\ UNCHANGED <<confVars, lshVars, offline, jobs, task, done, stopEv, workerVars>>

\* the progress loop: `continue` while nothing was dequeued, `break` once
\* the queue is empty or no worker is alive
MainPoll ==
    /\ mode = "cli"
    /\ mainpc = "wait"
    /\ Cardinality(domains) - Len(jobs) # 0
    /\ jobs = <<>> \/ \A w \in threads : ~IsAlive(w)
    /\ mainpc' = "stopall"
    /\ UNCHANGED <<confVars, lshVars, offline, jobs, task, done, nextw, threads, stopEv,
                   workerVars>>

\* for worker in threads: worker.stop()
MainStopAll ==
    /\ mainpc = "stopall"
    /\ stopEv' = [w \in Workers |-> stopEv[w] \/ w \in threads]
    /\ mainpc' = "join"
    /\ UNCHANGED <<confVars, lshVars, offline, jobs, task, done, nextw, threads, workerVars>>

\* for worker in threads: worker.join(); then the results are formatted
MainJoin ==
    /\ mainpc = "join"
    /\ \A w \in threads : ~IsAlive(w)
    /\ mainpc' = "done"
    /\ UNCHANGED <<confVars, lshVars, offline, jobs, task, done, nextw, threads, stopEv,
                   workerVars>>

\* Permutation.__lt__ as far as the model knows the keys: the tag first;
\* for one tag the domain, unless both records are registered, where the
\* first address (which the model does not carry) comes first
CanPrecede(p, q) ==
    IF task[p].fuzzer # task[q].fuzzer
    THEN task[p].fuzzer = "*original"
    ELSE \/ is_registered(task[p]) /\ is_registered(task[q])
         \/ task[p].domain < task[q].domain

Orderings(S) ==
    {s \in [1..Cardinality(S) -> S] :
        \A i, j \in 1..Cardinality(S) : i # j => s[i] # s[j]}

\* the filter of Fuzzer.permutations
KeepsAll(r, u, p) == TRUE
Keeps(r, u, p) ==
    IF r /\ ~u THEN is_registered(task[p])
    ELSE IF u /\ ~r THEN ~is_registered(task[p])
    ELSE TRUE

\* domains = fuzz.permutations(registered=args.registered,
\*                             unregistered=args.unregistered, ...);
\* run() refuses both flags together
permutations ==
    /\ mode = "cli"
    /\ mainpc = "done"
    /\ \E r, u \in BOOLEAN :
         \E s \in Orderings({p \in domains : Keeps(r, u, p)}) :
            /\ ~(r /\ u)
            /\ \A i, j \in 1..Len(s) : i < j => CanPrecede(s[i], s[j])
            /\ listed' = [registered |-> r, unregistered |-> u, out |-> s]
    /\ mainpc' = "output"
    /\ UNCHANGED <<confVars, lshVars, engineVars, formatVars, webVars,
                   whoisVars, jobs, task, done, nextw, threads, stopEv,
                   workerVars>>

\* signal_handler, first half: if threads: jobs.queue.clear()
SignalHandler ==
    /\ mode = "cli"
    /\ mainpc \in {"start", "append", "wait", "stopall", "join"}
    /\ IF threads # {}
       THEN jobs' = <<>> /\ mainpc' = "sig_stop"
       ELSE mainpc' = "interrupted" /\ UNCHANGED jobs
    /\ UNCHANGED <<confVars, lshVars, offline, task, done, nextw, threads, stopEv, workerVars>>

\* signal_handler, second half: worker.stop() for each, threads.clear(),
\* raise KeyboardInterrupt
SignalStop ==
    /\ mainpc = "sig_stop"
    /\ stopEv' = [w \in Workers |-> stopEv[w] \/ w \in threads]
    /\ threads' = {}
    /\ mainpc' = "interrupted"
    /\ UNCHANGED <<confVars, lshVars, offline, jobs, task, done, nextw, workerVars>>

\* ------------------------------------------------- webapp.py: Session
\* janitor: if s.jobs.empty() and s.threads: s.stop(), whose first half is
\* self.jobs.queue.clear() and worker.stop() for each worker
SessionStop ==
    /\ mode = "webapp"
    /\ mainpc = "wait"
    /\ jobs = <<>> /\ threads # {}
    /\ jobs' = <<>>
    /\ stopEv' = [w \in Workers |-> stopEv[w] \/ w \in threads]
    /\ mainpc' = "session_join"
    /\ UNCHANGED <<confVars, lshVars, offline, task, done, nextw, threads, workerVars>>

\* Session.stop, second half: worker.join() for each, self.threads.clear()
SessionJoin ==
    /\ mainpc = "session_join"
    /\ \A w \in threads : ~IsAlive(w)
    /\ threads' = {}
    /\ mainpc' = "done"
    /\ UNCHANGED <<confVars, lshVars, offline, jobs, task, done, nextw, stopEv, workerVars>>

\* ------------------------------------------------------ specification
\* Session.scan sets option_extdns and option_geoip only
WebappOptions ==
    {o \in OptionSets : ~o.mxcheck /\ ~o.banners /\ ~o.phash /\ ~o.lsh}

\* Every option set is explored with one worker and one job. One worker
\* taking two jobs in a row (what carries the locals of one iteration into
\* the next) is explored under SerialOptions, several workers under
\* PoolOptions.
SerialOptions ==
    {o \in OptionSets : ~o.geoip /\ ~o.banners /\ ~o.phash /\ ~o.lsh}

PoolOptions == {o \in SerialOptions : ~o.extdns}

\* the permutation engine and the formatter at rest
EngineIdle ==
    /\ seed = <<>> /\ tld = <<>> /\ tlds = <<>> /\ fuzzers = <<>>
    /\ strict = FALSE /\ fzdomains = {} /\ fzpc = "idle" /\ fzi = 0
    /\ ordered = <<>>
    /\ subdomain = <<>> /\ first = {} /\ calls = 0

FormatIdle ==
    /\ rows = <<>> /\ text = <<>> /\ parsed = <<>> /\ fmtpc = "idle"

\* no web application and no WHOIS lookup
ServicesIdle ==
    /\ sessions = {} /\ sess = <<>> /\ req = <<>>
    /\ whpc = "idle" /\ whstack = <<>> /\ whois_tld = "none"

\* run() before the baseline fetch; a Session once scan() has put the
\* permutations on the queue and before it starts a worker
Init ==
    /\ mode \in {"cli", "webapp"}
    /\ nthreads \in 1..NumWorkers
    \* fuzzed permutations differ in nothing but their name: the scan is
    \* given the seed or not, and the first few of the others
    /\ domains \in {S \in SUBSET Perms \ {{}} :
                      \A p \in S : p > 1 => p - 1 \in S}
    /\ opt \in IF mode = "cli" THEN OptionSets ELSE WebappOptions
    /\ \/ nthreads = 1 /\ Cardinality(domains) = 1
       \/ nthreads = 1 /\ Cardinality(domains) = 2 /\ opt \in SerialOptions
       \/ opt \in PoolOptions
    /\ jobs = IF mode = "cli" THEN <<>> ELSE Enqueued(domains)
    /\ task = [p \in Perms |-> NewPermutation(p)]
    /\ done = [p \in Perms |-> 0]
    /\ mainpc = IF mode = "cli" THEN "baseline" ELSE "start"
    /\ nextw = 1
    /\ threads = {}
    /\ stopEv = [w \in Workers |-> FALSE]
    /\ pc = [w \in Workers |-> "new"]
    /\ cur = [w \in Workers |-> NoTask]
    /\ loc = [w \in Workers |->
                [nxdomain |-> "unbound", dns_ns |-> "unbound",
                 dns_mx |-> "unbound", dns_a |-> FALSE, dns_aaaa |-> FALSE]]
    /\ sock = [w \in Workers |-> "none"]
    /\ mxi = [w \in Workers |-> 0]
    /\ sent = [w \in Workers |-> <<>>]
    /\ replies = [w \in Workers |-> <<>>]
    /\ qlog = [w \in Workers |-> <<>>]
    /\ nsres = [w \in Workers |-> "none"]
    /\ stages = [w \in Workers |-> <<>>]
    /\ cause = [w \in Workers |-> "none"]
    /\ claimed = [p \in Perms |-> {}]
    /\ writers = [p \in Perms |-> {}]
    /\ baseline = [alg |-> "none", outcome |-> "none"]
    /\ fetched = [p \in Perms |-> "none"]
    /\ score = [p \in Perms |-> NoScore]
    /\ listed = [registered |-> FALSE, unregistered |-> FALSE, out |-> <<>>]
    /\ EngineIdle
    /\ FormatIdle
    /\ ServicesIdle

Next ==
    \/ \E w \in Workers : Worker(w)
    \/ BaselineFetch
    \/ StartWorker \/ AppendWorker
    \/ MainPoll \/ MainStopAll \/ MainJoin
    \/ permutations
    \/ SignalHandler \/ SignalStop
    \/ SessionStop \/ SessionJoin

Spec == Init /\ [][Next]_vars

\* =================================================== the permutation engine
\* Fuzzer: a domain is a sequence of characters, "." between its labels.
\* The subdomain is empty; of the fuzzers the model carries bitsquatting,
\* homoglyph, hyphenation, omission, transposition, vowel-swap and tld-swap.
MaxLabel == 2

Lower == <<"a", "b", "c", "d", "e", "f", "g", "h", "i", "j", "k", "l", "m",
           "n", "o", "p", "q", "r", "s", "t", "u", "v", "w", "x", "y", "z">>
Digits == <<"0", "1", "2", "3", "4", "5", "6", "7", "8", "9">>
Upper == <<"C", "O">>
\* characters outside ASCII: glyphs of glyphs_unicode for 'a', 'e' and
\* 'ae', and the Cyrillic letters latin_to_cyrillic has for a, b, e and m
NonAscii ==
    <<"a_grave", "e_acute", "ae_ligature", "cy_a", "cy_b", "cy_e", "cy_m">>
Unicode == {NonAscii[n] : n \in 1..Len(NonAscii)}

Range(s) == {s[i] : i \in 1..Len(s)}
IndexOf(s, c) == CHOOSE i \in 1..Len(s) : s[i] = c

\* set('abcdefghijklmnopqrstuvwxyz0123456789-') of _bitsquatting
chars == Range(Lower) \cup Range(Digits) \cup {"-"}

\* ord(c), for the characters that have one below 128
ord(c) ==
    IF c \in Range(Lower) THEN 96 + IndexOf(Lower, c)
    ELSE IF c \in Range(Digits) THEN 47 + IndexOf(Digits, c)
    ELSE IF c = "C" THEN 67
    ELSE IF c = "O" THEN 79
    ELSE IF c = "-" THEN 45
    ELSE IF c = "." THEN 46
    ELSE 128 + IndexOf(NonAscii, c)

\* ord(c) ^ mask for a mask of one bit
Xor(n, mask) == IF (n \div mask) % 2 = 1 THEN n - mask ELSE n + mask

\* the characters b with ord(b) = n among `chars`
chr(n) == {b \in chars : ord(b) = n}

\* '.'.join(filter(None, [a, b]))
Join(label, t) ==
    IF label = <<>> THEN t
    ELSE IF t = <<>> THEN label
    ELSE label \o <<".">> \o t

\* '.'.join(filter(None, [self.subdomain, domain, tld]))
Fqdn(label, t) == Join(subdomain, Join(label, t))

\* domain.split('.')
RECURSIVE Split(_)
Split(d) ==
    IF \A i \in 1..Len(d) : d[i] # "." THEN <<d>>
    ELSE LET k == CHOOSE i \in 1..Len(d) :
                     d[i] = "." /\ \A j \in 1..(i - 1) : d[j] # "."
         IN <<SubSeq(d, 1, k - 1)>> \o Split(SubSeq(d, k + 1, Len(d)))

\* idna.encode of one label. The codec of the standard library leaves an
\* ASCII label as it is; the idna package refuses a label with a hyphen at
\* an end or with an upper-case letter. A label with other characters
\* becomes 'xn--' and an ASCII rendering that is different for every label.
LabelRefused(l) ==
    \/ l = <<>>
    \/ strict /\ (l[1] = "-" \/ l[Len(l)] = "-" \/ Range(l) \cap Range(Upper) # {})

ToDigit(c) == IF c \in Unicode THEN Digits[IndexOf(NonAscii, c) + 1] ELSE c

ToAscii(l) ==
    IF Range(l) \cap Unicode = {} THEN l
    ELSE <<"x", "n", "-", "-">> \o [i \in 1..Len(l) |-> ToDigit(l[i])]

RECURSIVE JoinLabels(_)
JoinLabels(ls) ==
    IF Len(ls) = 1 THEN ls[1]
    ELSE ls[1] \o <<".">> \o JoinLabels(Tail(ls))

\* ctld of domain_tld
ctld ==
    {<<"o", "r", "g">>, <<"c", "o", "m">>, <<"n", "e", "t">>,
     <<"g", "o", "v">>, <<"e", "d", "u">>, <<"c", "o">>, <<"m", "i", "l">>,
     <<"n", "o", "m">>, <<"a", "c">>, <<"i", "n", "f", "o">>,
     <<"b", "i", "z">>, <<"n", "e">>}

\* domain_tld(domain) without the tld package: <<subdomain, label, tld>>
domain_tld(domain) ==
    LET d == Split(domain)
        n == Len(d)
        dotted(ls) == IF ls = <<>> THEN <<>> ELSE JoinLabels(ls)
    IN  IF n < 2 THEN <<(<<>>), d[1], (<<>>)>>
        ELSE IF n = 2 THEN <<(<<>>), d[1], d[2]>>
        ELSE IF d[n - 1] \in ctld
             THEN <<dotted(SubSeq(d, 1, n - 3)), d[n - 2],
                    dotted(SubSeq(d, n - 1, n))>>
             ELSE <<dotted(SubSeq(d, 1, n - 2)), d[n - 1], d[n]>>

\* _punycode: idna.encode(domain['domain']).decode(), '' when it raises
KeepsRaw(d) == d
Punycode(d) ==
    LET ls == Split(d)
    IN IF \E i \in 1..Len(ls) : LabelRefused(ls[i]) THEN <<>>
       ELSE JoinLabels([i \in 1..Len(ls) |-> ToAscii(ls[i])])

\* VALID_FQDN_REGEX, matched case-insensitively:
\* (?=^.{4,253}$)(^((?!-)[a-z0-9-]{1,63}(?<!-)\.)+[a-z0-9-]{2,63}$)
Ldh == chars \cup Range(Upper)

VALID_FQDN_REGEX(d) ==
    LET ls == Split(d)
        n == Len(ls)
    IN /\ Len(d) >= 4 /\ Len(d) <= 253
       /\ n >= 2
       /\ \A i \in 1..(n - 1) :
            /\ Len(ls[i]) >= 1 /\ Len(ls[i]) <= 63
            /\ Range(ls[i]) \subseteq Ldh
            /\ ls[i][1] # "-" /\ ls[i][Len(ls[i])] # "-"
       /\ Len(ls[n]) >= 2 /\ Len(ls[n]) <= 63
       /\ Range(ls[n]) \subseteq Ldh

\* Permutation(fuzzer=..., domain=...)
Permutation(f, d) == [fuzzer |-> f, domain |-> d]

\* self.domains.add(p) for each p of P, all of one fuzzer: __hash__ and
\* __eq__ are by domain, and a set keeps the element it already has
\* Permutation.__eq__ (and __hash__): by domain alone
SameRecord(p, q) == p = q
__eq__(p, q) == p.domain = q.domain

AddReplacing(S, P) == {q \in S : \A p \in P : ~__eq__(p, q)} \cup P
Add(S, P) == S \cup {p \in P : \A q \in S : ~__eq__(p, q)}

\* domain[:i] + g + domain[i+1:], for the i-th character counted from 1
Put(l, i, g) == SubSeq(l, 1, i - 1) \o g \o SubSeq(l, i + 1, Len(l))

_bitsquatting(l) ==
    UNION {{Put(l, i, <<b>>) :
              b \in UNION {chr(Xor(ord(l[i]), mask)) :
                             mask \in {1, 2, 4, 8, 16, 32, 64, 128}}} :
           i \in 1..Len(l)}

_hyphenation(l) ==
    {SubSeq(l, 1, i) \o <<"-">> \o SubSeq(l, i + 1, Len(l)) :
       i \in 1..(Len(l) - 1)}

_omission(l) == {Put(l, i, <<>>) : i \in 1..Len(l)}

_transposition(l) ==
    {SubSeq(l, 1, i - 1) \o <<l[i + 1], l[i]>> \o SubSeq(l, i + 2, Len(l)) :
       i \in 1..(Len(l) - 1)}

\* latin_to_cyrillic, for the letters the seeds of the model are made of
\* ('f' has no entry, nor have digits and '-')
latin_to_cyrillic(c) ==
    CASE c = "a" -> "cy_a"
      [] c = "b" -> "cy_b"
      [] c = "e" -> "cy_e"
      [] c = "m" -> "cy_m"
      [] OTHER -> c

\* every mapped letter replaced; nothing when a character stayed as it was
_cyrillic(l) ==
    LET cdomain == [i \in 1..Len(l) |-> latin_to_cyrillic(l[i])]
    IN  IF \E i \in 1..Len(l) : cdomain[i] = l[i] THEN {} ELSE {cdomain}

\* for i in range(1, len(self.domain)-1): domain[:i] + '.' + domain[i:]
_subdomain(l) ==
    {SubSeq(l, 1, i) \o <<".">> \o SubSeq(l, i + 1, Len(l)) :
       i \in {j \in 1..(Len(l) - 2) :
                l[j + 1] \notin {"-", "."} /\ l[j] \notin {"-", "."}}}

vowels == {"a", "e", "i", "o", "u"}

_vowel_swap(l) ==
    UNION {IF l[i] \in vowels THEN {Put(l, i, <<v>>) : v \in vowels} ELSE {} :
           i \in 1..Len(l)}

\* glyphs_ascii merged with glyphs_unicode, for the keys the model carries
glyphs(k) ==
    CASE k = <<"a">> -> {<<"a_grave">>}
      [] k = <<"b">> -> {<<"d">>, <<"l", "b">>}
      [] k = <<"c">> -> {<<"e">>}
      [] k = <<"d">> -> {<<"b">>, <<"c", "l">>, <<"d", "l">>}
      [] k = <<"e">> -> {<<"c">>, <<"e_acute">>}
      [] k = <<"m">> -> {<<"n">>, <<"n", "n">>, <<"r", "n">>}
      [] k = <<"n">> -> {<<"m">>, <<"r">>}
      [] k = <<"r", "n">> -> {<<"m">>}
      [] k = <<"c", "l">> -> {<<"d">>}
      [] k = <<"a", "e">> -> {<<"ae_ligature">>}
      [] OTHER -> {}

\* win.replace(c, g) for a window of two characters
Replace(win, c, g) ==
    IF c = win THEN g
    ELSE (IF <<win[1]>> = c THEN g ELSE <<win[1]>>)
         \o (IF <<win[2]>> = c THEN g ELSE <<win[2]>>)

\* mix(domain) of _homoglyph
mix(d) ==
    UNION {{Put(d, i, g) : g \in glyphs(<<d[i]>>)} : i \in 1..Len(d)}
    \cup
    UNION {LET win == SubSeq(d, i, i + 1)
           IN UNION {{SubSeq(d, 1, i - 1) \o Replace(win, c, g)
                        \o SubSeq(d, i + 2, Len(d)) : g \in glyphs(c)} :
                     c \in {<<win[1]>>, <<win[2]>>, win}} :
           i \in 1..(Len(d) - 1)}

_homoglyph(l) ==
    LET result1 == mix(l)
    IN result1 \cup UNION {mix(r) : r \in result1}

\* the fuzzers generate() runs when it is given none
DefaultFuzzers ==
    <<"bitsquatting", "cyrillic", "homoglyph", "hyphenation", "omission",
      "subdomain", "transposition", "vowel-swap">>

\* getattr(self, '_' + f_name.replace('-', '_'))(), nothing for a name
\* that is no method
Candidates(f_name) ==
    CASE f_name = "bitsquatting" -> _bitsquatting(seed)
      [] f_name = "cyrillic" -> _cyrillic(seed)
      [] f_name = "subdomain" -> _subdomain(seed)
      [] f_name = "homoglyph" -> _homoglyph(seed)
      [] f_name = "hyphenation" -> _hyphenation(seed)
      [] f_name = "omission" -> _omission(seed)
      [] f_name = "transposition" -> _transposition(seed)
      [] f_name = "vowel-swap" -> _vowel_swap(seed)
      [] OTHER -> {}

\* fuzzers or [...]
Names == IF fuzzers = <<>> THEN DefaultFuzzers ELSE fuzzers

\* if not fuzzers or name in fuzzers
Enabled(name) == fuzzers = <<>> \/ name \in Range(fuzzers)

\* ------------------------------------------------- Fuzzer.generate
scanVars == <<confVars, lshVars, listed, jobs, task, done, mainVars, stopEv,
              workerVars>>

\* self.domains = set(); the '*original' permutation
GenOriginal ==
    /\ fzpc = "generate"
    /\ fzdomains' = IF Enabled("*original")
                    THEN {Permutation("*original", Fqdn(seed, tld))}
                    ELSE {}
    /\ fzi' = 1
    /\ fzpc' = "fuzz"
    /\ UNCHANGED <<scanVars, formatVars, webVars, whoisVars, subdomain,
                   first, calls, seed, tld, tlds, fuzzers, strict,
                   ordered>>

\* one turn of `for f_name in fuzzers or [...]`
GenFuzzer ==
    /\ fzpc = "fuzz"
    /\ fzi <= Len(Names)
    /\ fzdomains' = Add(fzdomains,
                        {Permutation(Names[fzi], Fqdn(d, tld)) :
                           d \in Candidates(Names[fzi])})
    /\ fzi' = fzi + 1
    /\ UNCHANGED <<scanVars, formatVars, webVars, whoisVars, subdomain,
                   first, calls, seed, tld, tlds, fuzzers, strict,
                   fzpc, ordered>>

\* list.remove(x): the list without the first x
Remove(list, x) ==
    LET k == CHOOSE i \in 1..Len(list) :
                 list[i] = x /\ \A j \in 1..(i - 1) : list[j] # x
    IN  SubSeq(list, 1, k - 1) \o SubSeq(list, k + 1, Len(list))

\* _tld(): if self.tld in self.tld_dictionary: remove it; the set of the rest
_tld == IF tld \in Range(tlds) THEN Remove(tlds, tld) ELSE tlds

\* tld-swap
GenTld ==
    /\ fzpc = "fuzz"
    /\ fzi > Len(Names)
    /\ IF Enabled("tld-swap")
       THEN /\ tlds' = _tld
            /\ fzdomains' = Add(fzdomains,
                                {Permutation("tld-swap", Fqdn(seed, t)) :
                                   t \in Range(_tld)})
       ELSE UNCHANGED <<tlds, fzdomains>>
    /\ fzpc' = "various"
    /\ UNCHANGED <<scanVars, formatVars, webVars, whoisVars, subdomain,
                   first, calls, seed, tld, fuzzers, strict, fzi,
                   ordered>>

\* the domains of the 'various' branch of generate
OnlyLastTld == {Fqdn(seed, Split(tld)[Len(Split(tld))])}
various ==
    LET com == <<"c", "o", "m">>
        dotted == "." \in Range(tld)
    IN  (IF dotted
         THEN {Fqdn(seed, Split(tld)[Len(Split(tld))]),
               Join(subdomain, seed \o tld)}
         ELSE {Fqdn(seed \o tld, tld)})
        \cup
        (IF tld # com /\ ~dotted
         THEN {Fqdn(seed \o <<"-">> \o tld, com), Fqdn(seed \o tld, com)}
         ELSE {})
        \cup
        (IF subdomain # <<>>
         THEN {subdomain \o seed \o <<".">> \o tld,
               SelectSeq(subdomain, LAMBDA c : c # ".") \o seed
                 \o <<".">> \o tld,
               subdomain \o <<"-">> \o seed \o <<".">> \o tld,
               [i \in 1..Len(subdomain) |->
                  IF subdomain[i] = "." THEN "-" ELSE subdomain[i]]
                 \o <<"-">> \o seed \o <<".">> \o tld}
         ELSE {})

GenVarious ==
    /\ fzpc = "various"
    /\ fzdomains' = IF Enabled("various")
                    THEN Add(fzdomains,
                             {Permutation("various", d) : d \in various})
                    ELSE fzdomains
    /\ fzpc' = "punycode"
    /\ UNCHANGED <<scanVars, formatVars, webVars, whoisVars, subdomain,
                   first, calls, seed, tld, tlds, fuzzers, strict, fzi,
                   ordered>>

\* self.domains = set(map(_punycode, self.domains)): of the records that
\* are equal once encoded the new set keeps one, which one depends on the
\* order the old set is iterated in
GenPunycode ==
    /\ fzpc = "punycode"
    /\ LET encoded == {Permutation(p.fuzzer, Punycode(p.domain)) :
                         p \in fzdomains}
           clash == {p \in encoded :
                       \E q \in encoded : q # p /\ __eq__(p, q)}
       IN \E kept \in SUBSET clash :
            /\ \A p \in clash :
                 Cardinality({q \in kept : __eq__(p, q)}) = 1
            /\ fzdomains' = (encoded \ clash) \cup kept
    /\ fzpc' = "filter"
    /\ UNCHANGED <<scanVars, formatVars, webVars, whoisVars, subdomain,
                   first, calls, seed, tld, tlds, fuzzers, strict,
                   fzi, ordered>>

\* if not VALID_FQDN_REGEX.match(domain.get('domain')): discard
DiscardsNothing(p) == FALSE
Discards(p) == ~VALID_FQDN_REGEX(p.domain)

GenFilter ==
    /\ fzpc = "filter"
    /\ fzdomains' = {p \in fzdomains : ~Discards(p)}
    /\ fzpc' = "generated"
    /\ UNCHANGED <<scanVars, formatVars, webVars, whoisVars, subdomain,
                   first, calls, seed, tld, tlds, fuzzers, strict,
                   fzi, ordered>>

\* how often the model calls generate
MaxCalls == 2

\* generate(fuzzers) once more on the same Fuzzer
GenAgain ==
    /\ fzpc = "generated"
    /\ calls < MaxCalls
    /\ first' = fzdomains
    /\ calls' = calls + 1
    /\ fzi' = 0
    /\ fzpc' = "generate"
    /\ UNCHANGED <<scanVars, formatVars, webVars, whoisVars, subdomain,
                   seed, tld, tlds, fuzzers, strict, fzdomains, ordered>>

\* run() once more with the same arguments: the list of fuzzers is made
\* from set(args.fuzzers.split(',')), in the order that set iterates in;
\* the TLD dictionary is made from a set as well and names no TLD twice
RunAgain ==
    /\ fzpc = "generated"
    /\ calls < MaxCalls
    /\ fuzzers # <<>>
    /\ Cardinality(Range(tlds)) = Len(tlds)
    /\ tlds # <<>> => "tld-swap" \in Range(fuzzers)
    /\ \E s \in Orderings(Range(fuzzers)) : fuzzers' = s
    /\ first' = fzdomains
    /\ calls' = calls + 1
    /\ fzi' = 0
    /\ fzpc' = "generate"
    /\ UNCHANGED <<scanVars, formatVars, webVars, whoisVars, subdomain,
                   seed, tld, tlds, strict, fzdomains, ordered>>

\* ---------------------------------------------- Fuzzer.permutations
\* str.__lt__: by code point, a proper prefix first
RECURSIVE StrLess(_, _)
StrLess(x, y) ==
    IF y = <<>> THEN FALSE
    ELSE IF x = <<>> THEN TRUE
    ELSE IF x[1] # y[1] THEN ord(x[1]) < ord(y[1])
    ELSE StrLess(Tail(x), Tail(y))

\* the tags in the order of str.__lt__
TagOrder ==
    <<"*original", "bitsquatting", "cyrillic", "homoglyph", "hyphenation",
      "omission", "subdomain", "tld-swap", "transposition", "various",
      "vowel-swap">>

\* len(self) of a Permutation, and self.get('dns_a', [''])[0]
len(p) == Cardinality(DOMAIN p)
FirstAddress(p) == IF "dns_a" \in DOMAIN p THEN p.dns_a[1] ELSE <<>>

\* Permutation.__lt__
__lt__(p, q) ==
    IF p.fuzzer = q.fuzzer
    THEN IF len(p) > 2 /\ len(q) > 2
         THEN StrLess(FirstAddress(p) \o p.domain, FirstAddress(q) \o q.domain)
         ELSE StrLess(p.domain, q.domain)
    ELSE IndexOf(TagOrder, p.fuzzer) < IndexOf(TagOrder, q.fuzzer)

\* sorted(domains) of records the order is total on (those of generate,
\* which have their two fields only)
RECURSIVE sorted(_)
sorted(S) ==
    IF S = {} THEN <<>>
    ELSE LET least == CHOOSE p \in S : \A q \in S \ {p} : __lt__(p, q)
         IN <<least>> \o sorted(S \ {least})

\* fuzz.permutations() with no filter
ListPermutations ==
    /\ fzpc = "generated"
    /\ ordered' = sorted(fzdomains)
    /\ fzpc' = "listed"
    /\ UNCHANGED <<scanVars, formatVars, webVars, whoisVars, subdomain,
                   first, calls, seed, tld, tlds, fuzzers, strict,
                   fzdomains, fzi>>

\* ------------------------------------------- specification of the engine
SeedChars == {"a", "e", "b", "m", "-"}

\* the labels UrlParser lets through, up to MaxLabel characters
Seeds ==
    {l \in UNION {[1..n -> SeedChars] : n \in 1..MaxLabel} :
        l[1] # "-" /\ l[Len(l)] # "-"}

TldDictionary ==
    <<(<<"d", "e">>), (<<"c", "o">>), (<<"c", "-">>), (<<"C", "O">>),
      (<<"c">>)>>

\* a list that names a TLD twice
RepeatedTlds == <<(<<"d", "e">>), (<<"u", "k">>), (<<"d", "e">>)>>

\* seeds with a letter latin_to_cyrillic has no entry for
MixedSeeds == {<<"a", "b">>, <<"a", "f">>, <<"f", "a">>, <<"f">>}

\* the TLDs of the seeds: a plain one, 'com' and one of two labels
SeedTlds == {<<"d", "e">>, <<"c", "o", "m">>, <<"c", "o", ".", "u", "k">>}

StructuralLists ==
    {<<"cyrillic">>, <<"subdomain">>, <<"various">>, <<"tld-swap">>,
     <<"bitsquatting", "vowel-swap">>, <<"*original", "various">>}

FuzzerLists ==
    {<<>>, <<"*original">>, <<"bitsquatting">>, <<"homoglyph">>,
     <<"hyphenation">>, <<"omission">>, <<"transposition">>,
     <<"vowel-swap">>, <<"tld-swap">>, <<"*original", "transposition">>,
     <<"vowel-swap", "*original", "homoglyph">>,
     <<"omission", "bitsquatting", "tld-swap">>}

\* no scan is running
ScanIdle ==
    /\ mode = "none" /\ nthreads = 0 /\ domains = {}
    /\ opt = [extdns |-> FALSE, mxcheck |-> FALSE, geoip |-> FALSE,
              banners |-> FALSE, phash |-> FALSE, lsh |-> FALSE]
    /\ baseline = [alg |-> "none", outcome |-> "none"]
    /\ jobs = <<>>
    /\ task = [p \in Perms |-> NewPermutation(p)]
    /\ done = [p \in Perms |-> 0]
    /\ mainpc = "idle" /\ nextw = 1 /\ threads = {}
    /\ stopEv = [w \in Workers |-> FALSE]
    /\ pc = [w \in Workers |-> "new"]
    /\ cur = [w \in Workers |-> NoTask]
    /\ loc = [w \in Workers |->
                [nxdomain |-> "unbound", dns_ns |-> "unbound",
                 dns_mx |-> "unbound", dns_a |-> FALSE, dns_aaaa |-> FALSE]]
    /\ sock = [w \in Workers |-> "none"]
    /\ mxi = [w \in Workers |-> 0]
    /\ sent = [w \in Workers |-> <<>>]
    /\ replies = [w \in Workers |-> <<>>]
    /\ qlog = [w \in Workers |-> <<>>]
    /\ nsres = [w \in Workers |-> "none"]
    /\ stages = [w \in Workers |-> <<>>]
    /\ cause = [w \in Workers |-> "none"]
    /\ claimed = [p \in Perms |-> {}]
    /\ writers = [p \in Perms |-> {}]
    /\ fetched = [p \in Perms |-> "none"]
    /\ score = [p \in Perms |-> NoScore]
    /\ listed = [registered |-> FALSE, unregistered |-> FALSE, out |-> <<>>]

\* Fuzzer(url.domain, dictionary, tld_dictionary) before generate(fuzzers)
InitFuzzer ==
    /\ ScanIdle
    /\ FormatIdle
    /\ ServicesIdle
    /\ first = {}
    /\ calls = 1
    /\ \/ /\ seed \in Seeds
          /\ subdomain = <<>>
          /\ tld = <<"d", "e">>
          /\ tlds \in {<<>>, TldDictionary}
          /\ fuzzers \in FuzzerLists
          /\ strict \in BOOLEAN
       \/ /\ seed \in MixedSeeds
          /\ subdomain \in {<<>>, <<"w">>}
          /\ tld \in SeedTlds
          /\ tlds \in {<<>>, RepeatedTlds}
          /\ fuzzers \in StructuralLists
          /\ strict = FALSE
    /\ domain_tld(Fqdn(seed, tld)) = <<subdomain, seed, tld>>
    /\ fzdomains = {}
    /\ fzpc = "generate"
    /\ fzi = 0
    /\ ordered = <<>>

NextFuzzer ==
    \/ GenOriginal \/ GenFuzzer \/ GenTld \/ GenVarious \/ GenPunycode
    \/ GenFilter \/ GenAgain \/ RunAgain \/ ListPermutations

SpecFuzzer == InitFuzzer /\ [][NextFuzzer]_vars

\* ================================================================ Format
\* Format(domains).csv() and a reader of the text it returns.  A text is a
\* list of characters; a column name, the tag "f", the name "d" and a
\* number are one character each.

\* longest banner the formatter is given
MaxValue == 2

\* the characters of a string value: a plain one, the delimiter of the
\* cells and the quote character
ValueChars == {"a", ",", "\""}

Strings(n) == UNION {[1..k -> ValueChars] : k \in 0..n}

\* the keys a permutation may carry besides fuzzer and domain, in the
\* order sorted() gives them
AnnotationKeys == <<"banner_http", "dns_a", "ssdeep">>

\* isinstance(val, ...) of the value of a key
TypeOf(c) ==
    IF c = "dns_a" THEN "list"
    ELSE IF c = "ssdeep" THEN "int"
    ELSE "str"

\* domain.keys(): an annotation that is absent is the empty list, one
\* that is present is the list of its value
keys(domain) ==
    {"fuzzer", "domain"} \cup
    {k \in Range(AnnotationKeys) : domain[k] # <<>>}

\* cols: fuzzer, domain, then the other keys of all rows, sorted
cols(ds) ==
    <<"fuzzer", "domain">> \o
    SelectSeq(AnnotationKeys, LAMBDA k : \E i \in 1..Len(ds) : k \in keys(ds[i]))

\* sep.join(list)
RECURSIVE join(_, _)
join(sep, list) ==
    IF list = <<>> THEN <<>>
    ELSE IF Len(list) = 1 THEN list[1]
    ELSE list[1] \o <<sep>> \o join(sep, Tail(list))

\* s.split(sep)
RECURSIVE split(_, _)
split(s, sep) ==
    IF \A i \in 1..Len(s) : s[i] # sep THEN <<s>>
    ELSE LET k == CHOOSE i \in 1..Len(s) :
                     s[i] = sep /\ \A j \in 1..(i - 1) : s[j] # sep
         IN <<SubSeq(s, 1, k - 1)>> \o split(SubSeq(s, k + 1, Len(s)), sep)

\* str(val) of a number
str(n) == <<ToString(n)>>

\* the cell csv() appends for column c of a row: domain.get(c, '') and
\* the three isinstance branches
Cell(domain, c) ==
    IF c \notin keys(domain) THEN <<>>
    ELSE LET val == domain[c][1]
         IN  IF TypeOf(c) = "str"
             THEN IF "," \in Range(val)
                  THEN <<"\"">> \o val \o <<"\"">>
                  ELSE val
             ELSE IF TypeOf(c) = "list" THEN join(";", val)
             ELSE str(val)

\* Format.csv()
csv ==
    /\ fmtpc = "csv"
    /\ LET cs == cols(rows)
           header == join(",", [j \in 1..Len(cs) |-> <<cs[j]>>])
           line(i) == join(",", [j \in 1..Len(cs) |-> Cell(rows[i], cs[j])])
       IN  text' = join("\n", <<header>> \o [i \in 1..Len(rows) |-> line(i)])
    /\ fmtpc' = "reader"
    /\ UNCHANGED <<rows, parsed>>
    /\ UNCHANGED <<scanVars, engineVars, webVars, whoisVars>>

\* one character through a CSV reader of the default dialect: delimiter
\* ',', quote character '"', a doubled quote inside a quoted cell is one
\* quote, a quoted cell may hold line breaks
Step(s, c) ==
    LET add == [s EXCEPT !.field = @ \o <<c>>]
        save == [s EXCEPT !.row = @ \o <<s.field>>, !.field = <<>>]
        endrow == [st |-> "start_record", field |-> <<>>, row |-> <<>>,
                   out |-> s.out \o <<save.row>>]
    IN  IF s.st \in {"start_record", "start_field"}
        THEN IF c = "\n"
             THEN IF s.st = "start_record"
                  THEN [s EXCEPT !.out = @ \o <<(<<>>)>>]
                  ELSE endrow
             ELSE IF c = "\"" THEN [s EXCEPT !.st = "in_quoted_field"]
             ELSE IF c = "," THEN [save EXCEPT !.st = "start_field"]
             ELSE [add EXCEPT !.st = "in_field"]
        ELSE IF s.st = "in_field"
        THEN IF c = "\n" THEN endrow
             ELSE IF c = "," THEN [save EXCEPT !.st = "start_field"]
             ELSE add
        ELSE IF s.st = "in_quoted_field"
        THEN IF c = "\"" THEN [s EXCEPT !.st = "quote_in_quoted_field"]
             ELSE add
        ELSE \* quote_in_quoted_field
             IF c = "\"" THEN [add EXCEPT !.st = "in_quoted_field"]
             ELSE IF c = "," THEN [save EXCEPT !.st = "start_field"]
             ELSE IF c = "\n" THEN endrow
             ELSE [add EXCEPT !.st = "in_field"]

RECURSIVE Feed(_, _)
Feed(s, t) == IF t = <<>> THEN s ELSE Feed(Step(s, t[1]), Tail(t))

\* the rows the reader returns for a text: the end of the text ends the
\* row it is in
Rows(t) ==
    LET s == Feed([st |-> "start_record", field |-> <<>>, row |-> <<>>,
                   out |-> <<>>], t)
    IN  IF s.st = "start_record" THEN s.out
        ELSE s.out \o <<s.row \o <<s.field>>>>

\* the reader takes the text csv() returned
reader ==
    /\ fmtpc = "reader"
    /\ parsed' = Rows(text)
    /\ fmtpc' = "parsed"
    /\ UNCHANGED <<rows, text>>
    /\ UNCHANGED <<scanVars, engineVars, webVars, whoisVars>>

\* the rows Format is given: one permutation, or an unannotated one and
\* a second with other keys
FormatRecords ==
    [fuzzer : {<<(<<"f">>)>>}, domain : {<<(<<"d">>)>>},
     banner_http : {<<>>} \cup {<<v>> : v \in Strings(MaxValue)},
     dns_a : {<<>>, <<(<<(<<"1">>)>>)>>, <<(<<(<<"1">>), (<<"2">>)>>)>>},
     ssdeep : {<<>>, <<0>>, <<5>>}]
RowLists ==
    LET original == [fuzzer |-> <<(<<"f">>)>>, domain |-> <<(<<"d">>)>>,
                     banner_http |-> <<>>, dns_a |-> <<>>, ssdeep |-> <<>>]
    IN  {<<r>> : r \in FormatRecords} \cup
        {<<original, r>> : r \in FormatRecords}

\* Format(domains) before csv()
InitFormat ==
    /\ ScanIdle
    /\ EngineIdle
    /\ ServicesIdle
    /\ rows \in RowLists
    /\ text = <<>>
    /\ parsed = <<>>
    /\ fmtpc = "csv"

NextFormat == csv \/ reader

SpecFormat == InitFormat /\ [][NextFormat]_vars

\* ================================================================ sorted
\* sorted(domains) of Fuzzer.permutations() after a scan: list.sort on the
\* list made by iterating self.domains. For a list this short list.sort is
\* count_run (the run the list starts with, reversed when it descends)
\* followed by binarysort of the rest.

\* how many permutations the sorted set has
MaxSorted == 3

\* the length of the run a list of two or more starts with
RECURSIVE RunEnd(_, _, _)
RunEnd(a, k, descending) ==
    IF k > Len(a) THEN k - 1
    ELSE IF __lt__(a[k], a[k - 1]) = descending
         THEN RunEnd(a, k + 1, descending)
         ELSE k - 1

\* the place binarysort finds for pivot among a[l..r-1], already in order
RECURSIVE Place(_, _, _, _)
Place(a, pivot, l, r) ==
    IF l >= r THEN l
    ELSE LET p == l + ((r - l) \div 2)
         IN  IF __lt__(pivot, a[p]) THEN Place(a, pivot, l, p)
             ELSE Place(a, pivot, p + 1, r)

\* binarysort(lo, hi, start): a[1..start-1] is in order
RECURSIVE binarysort(_, _)
binarysort(a, start) ==
    IF start > Len(a) THEN a
    ELSE LET l == Place(a, a[start], 1, start)
             moved == [i \in 1..Len(a) |->
                         IF i < l \/ i > start THEN a[i]
                         ELSE IF i = l THEN a[start]
                         ELSE a[i - 1]]
         IN  binarysort(moved, start + 1)

\* list.sort: count_run, reverse_slice of a descending run, binarysort
list_sort(a) ==
    IF Len(a) < 2 THEN a
    ELSE LET descending == __lt__(a[2], a[1])
             n == RunEnd(a, 3, descending)
             run == IF descending
                    THEN [i \in 1..Len(a) |->
                            IF i <= n THEN a[n + 1 - i] ELSE a[i]]
                    ELSE a
         IN  binarysort(run, n + 1)

\* the permutations of one fuzzer after a scan: not registered, registered
\* with a first address, registered with no address (name servers only)
SortedDomains ==
    <<(<<"a", ".", "d", "e">>), (<<"b", ".", "d", "e">>),
      (<<"c", ".", "d", "e">>), (<<"d", ".", "d", "e">>)>>

Scanned(d) ==
    {[fuzzer |-> "omission", domain |-> d]}
    \cup {[fuzzer |-> "omission", domain |-> d, dns_a |-> <<(<<a>>)>>] :
            a \in {"1", "9"}}
    \cup {[fuzzer |-> "omission", domain |-> d, dns_ns |-> <<(<<"n">>)>>]}

ScannedSets ==
    {S \in SUBSET UNION {Scanned(SortedDomains[i]) : i \in 1..MaxSorted} :
        /\ Cardinality(S) >= 2
        /\ \A p, q \in S : __eq__(p, q) => p = q}

\* fuzz.permutations() with no filter: the list of self.domains in the
\* order the set iterates in, sorted
SortPermutations ==
    /\ fzpc = "scanned"
    /\ \E a \in Orderings(fzdomains) : ordered' = list_sort(a)
    /\ fzpc' = "sorted"
    /\ UNCHANGED <<scanVars, formatVars, webVars, whoisVars, subdomain,
                   first, calls, seed, tld, tlds, fuzzers, strict,
                   fzdomains, fzi>>

InitSort ==
    /\ ScanIdle
    /\ FormatIdle
    /\ ServicesIdle
    /\ seed = <<>> /\ tld = <<>> /\ tlds = <<>> /\ fuzzers = <<>>
    /\ strict = FALSE /\ fzi = 0 /\ subdomain = <<>> /\ first = {}
    /\ calls = 0
    /\ fzdomains \in ScannedSets
    /\ fzpc = "scanned"
    /\ ordered = <<>>

SpecSort == InitSort /\ [][SortPermutations]_vars

\* ================================================================ webapp
\* webapp.py: POST /api/scans, POST /api/scans/<sid>/stop and the janitor
\* thread, over the module-level list `sessions`. Each request is served
\* by a thread of its own; a session is named after the request that made
\* it.

\* requests in flight, and the permutations of a session
NumRequests == 3
QueueLen == 2

\* SESSION_MAX of the environment
SESSION_MAX == 2

Requests == 1..NumRequests

\* sum([1 for s in sessions if not s.jobs.empty()])
Scanning == {s \in sessions : sess[s].jobs > 0}

\* api_scan, the test of the limit: 500 when it is reached
api_scan(r) ==
    /\ req[r] = "new"
    /\ req' = [req EXCEPT ![r] = IF Cardinality(Scanning) >= SESSION_MAX
                                 THEN "too_many" ELSE "admitted"]
    /\ UNCHANGED <<sessions, sess>>
    /\ UNCHANGED <<scanVars, engineVars, formatVars, whoisVars>>

\* api_scan: 400 for a request without url, with a long or an invalid
\* domain; otherwise Session(url) and session.scan(), which puts the
\* permutations on the queue and starts the workers
SessionScan(r) ==
    /\ req[r] = "admitted"
    /\ \/ /\ req' = [req EXCEPT ![r] = "bad_request"]
          /\ UNCHANGED sess
       \/ \E n \in 1..QueueLen :
            /\ sess' = [sess EXCEPT ![r] = [made |-> TRUE, jobs |-> n,
                                            threads |-> TRUE]]
            /\ req' = [req EXCEPT ![r] = "scanning"]
    /\ UNCHANGED sessions
    /\ UNCHANGED <<scanVars, engineVars, formatVars, whoisVars>>

\* api_scan: sessions.append(session), 201
SessionsAppend(r) ==
    /\ req[r] = "scanning"
    /\ sessions' = sessions \cup {r}
    /\ req' = [req EXCEPT ![r] = "created"]
    /\ UNCHANGED sess
    /\ UNCHANGED <<scanVars, engineVars, formatVars, whoisVars>>

\* a Scanner of the session takes a job off its queue
SessionWorker(s) ==
    /\ sess[s].threads /\ sess[s].jobs > 0
    /\ sess' = [sess EXCEPT ![s].jobs = @ - 1]
    /\ UNCHANGED <<sessions, req>>
    /\ UNCHANGED <<scanVars, engineVars, formatVars, whoisVars>>

\* Session.stop(): the queue cleared, the workers stopped and joined
Stopped(s) == [sess EXCEPT ![s].jobs = 0, ![s].threads = FALSE]

\* api_stop for a session of the list
api_stop(s) ==
    /\ s \in sessions
    /\ sess' = Stopped(s)
    /\ UNCHANGED <<sessions, req>>
    /\ UNCHANGED <<scanVars, engineVars, formatVars, whoisVars>>

\* one turn of the janitor for a session of the list: stop it when its
\* queue is empty and it has threads; else remove it when its time is up
\* (any moment, for the clock is not modelled)
janitor(s) ==
    /\ s \in sessions
    /\ IF sess[s].jobs = 0 /\ sess[s].threads
       THEN sess' = Stopped(s) /\ UNCHANGED sessions
       ELSE sessions' = sessions \ {s} /\ UNCHANGED sess
    /\ UNCHANGED req
    /\ UNCHANGED <<scanVars, engineVars, formatVars, whoisVars>>

InitWeb ==
    /\ ScanIdle
    /\ EngineIdle
    /\ FormatIdle
    /\ whpc = "idle" /\ whstack = <<>> /\ whois_tld = "none"
    /\ sessions = {}
    /\ sess = [r \in Requests |-> [made |-> FALSE, jobs |-> 0,
                                   threads |-> FALSE]]
    /\ req = [r \in Requests |-> "new"]

NextWeb ==
    \E r \in Requests :
        \/ api_scan(r) \/ SessionScan(r) \/ SessionsAppend(r)
        \/ SessionWorker(r) \/ api_stop(r) \/ janitor(r)

SpecWeb == InitWeb /\ [][NextWeb]_vars

\* ================================================================ Whois
\* Whois.query(query, server=None): one lookup, then the same for the
\* server a 'refer:' line of the response names.

\* the nested calls of query the interpreter allows
MaxDepth == 4

WHOIS_IANA == "whois.iana.org"
WhoisServers == {WHOIS_IANA, "whois.a", "whois.b"}

\* server = server or self.whois_tld.get(tld, self.WHOIS_IANA)
FirstServer == IF whois_tld = "none" THEN WHOIS_IANA ELSE whois_tld

\* one call of query for the server on top of the stack: the lookup times
\* out or the name does not resolve ('' is returned), fails otherwise (the
\* exception leaves query), or gives a response, with or without a
\* 'refer:' line; a referral calls query again
query ==
    /\ whpc = "query"
    /\ LET server == whstack[Len(whstack)]
           learnt == IF server # WHOIS_IANA /\ whois_tld = "none"
                     THEN server ELSE whois_tld
       IN  \/ /\ whpc' = "returned_empty"
              /\ UNCHANGED <<whstack, whois_tld>>
           \/ /\ whpc' = "raised"
              /\ UNCHANGED <<whstack, whois_tld>>
           \/ /\ whpc' = "returned"
              /\ whois_tld' = learnt
              /\ UNCHANGED whstack
           \/ \E refer \in WhoisServers :
                /\ whois_tld' = learnt
                /\ IF Len(whstack) < MaxDepth
                   THEN whstack' = Append(whstack, refer) /\ UNCHANGED whpc
                   ELSE whpc' = "recursion_error" /\ UNCHANGED whstack
    /\ UNCHANGED <<scanVars, engineVars, formatVars, webVars>>

InitWhois ==
    /\ ScanIdle
    /\ EngineIdle
    /\ FormatIdle
    /\ sessions = {} /\ sess = <<>> /\ req = <<>>
    /\ whois_tld \in {"none"} \cup (WhoisServers \ {WHOIS_IANA})
    /\ whstack = <<FirstServer>>
    /\ whpc = "query"

SpecWhois == InitWhois /\ [][query]_vars

\* ================================================================ claims
JobPcs == {"resolve_ns", "resolve_a", "resolve_aaaa", "resolve_mx",
           "getaddrinfo", "mxcheck", "mx_recv", "mx_send", "geoip",
           "banner_http", "banner_smtp", "phash", "lsh", "task_done"}

\* worker w holds a job it has dequeued and not yet marked done
InJob(w) == pc[w] \in JobPcs

Started == {w \in Workers : pc[w] # "new"}

Terminated(w) == pc[w] \in {"exited", "dead"}

\* the signal handler has run (or is running)
Signalled == mainpc \in {"sig_stop", "interrupted"}

\* C1: with every permutation enqueued before the first worker starts and no
\* stop request, once all N workers have terminated every permutation has
\* been dequeued and marked done exactly once, the queue is empty and every
\* worker left through the empty-queue exit. (Workers that fail in their
\* set-up before the loop are left aside.)
C1_ScanDrains ==
    ( /\ ~Signalled
      /\ Started = 1..nthreads
      /\ \A w \in Started : Terminated(w) /\ cause[w] # "init" )
    => /\ jobs = <<>>
       /\ \A p \in domains : Cardinality(claimed[p]) = 1 /\ done[p] = 1
       /\ \A w \in Started : pc[w] = "exited"

\* C2: every permutation is dequeued by at most one worker, annotated only
\* by that worker, and no two workers hold the same permutation at once.
C2_OneClaimant ==
    /\ \A p \in Perms : Cardinality(claimed[p]) <= 1 /\ writers[p] \subseteq claimed[p]
    /\ \A v, w \in Workers : (v # w /\ InJob(v) /\ InJob(w)) => cur[v] # cur[w]

\* two workers are in a job at the same time, each having annotated its own
C2_Witness ==
    \E v, w \in Workers :
        /\ v # w /\ InJob(v) /\ InJob(w)
        /\ writers[cur[v]] = {v} /\ writers[cur[w]] = {w}

\* C3: no network failure of a stage ends the worker: a worker is never dead
\* because of a failed send of the MX probe (the other failures of the
\* stages leave the worker in its job by construction of the actions).
C3_NetworkFailureNotFatal ==
    \A w \in Workers : ~(pc[w] = "dead" /\ cause[w] = "send")

\* C4: without the external resolver only dns_a and dns_aaaa are populated
\* among the DNS fields, and no worker dies in a job, whatever the flags.
C4_FallbackResolver ==
    ~opt.extdns =>
        /\ \A p \in Perms : task[p].dns_ns = "absent" /\ task[p].dns_mx = "absent"
        /\ \A w \in Workers : ~(pc[w] = "dead" /\ cur[w] # NoTask)

\* C5: once the signal handler has returned with a worker thread running,
\* the queue is empty and the stop flag of every started worker is set.
C5_StopEmptiesAndFlags ==
    (mainpc = "interrupted" /\ Started # {})
    => /\ jobs = <<>>
       /\ \A w \in Started : stopEv[w]

\* C6: mx_spy is set only after a 2xx reply to each of the four steps: the
\* greeting, EHLO, MAIL FROM and RCPT TO.
C6_SpyNeedsRcptReply ==
    \A w \in Workers :
        (InJob(w) /\ task[cur[w]].mx_spy)
        => /\ Len(replies[w]) = Len(SmtpCommands) + 1
           /\ \A i \in 1..Len(replies[w]) : replies[w][i] = "2xx"

\* C7: the commands sent are a prefix of EHLO, MAIL FROM, RCPT TO, each sent
\* after a 2xx reply to the step before; nothing else (no DATA) is sent; and
\* once the probe is over a socket that was connected is closed.
C7_ProbeDialogue ==
    \A w \in Workers :
        /\ Len(sent[w]) <= Len(SmtpCommands)
        /\ \A i \in 1..Len(sent[w]) :
              /\ sent[w][i] = SmtpCommands[i]
              /\ i <= Len(replies[w]) /\ replies[w][i] = "2xx"
        /\ (sock[w] # "none" /\ pc[w] \notin {"mx_recv", "mx_send"})
              => sock[w] = "closed"

\* C8: mx_spy = true only on a permutation whose dns_mx is a real answer and
\* whose domain is not the seed's.
C8_SpyNeedsMx ==
    \A p \in Perms :
        task[p].mx_spy => task[p].dns_mx = "real" /\ task[p].domain # SeedDomain

C8_Witness == \E p \in Perms : task[p].mx_spy /\ done[p] = 1

\* the DNS stage of the job of w is over
DnsDone(w) ==
    InJob(w) /\ pc[w] \notin {"resolve_ns", "resolve_a", "resolve_aaaa",
                              "resolve_mx", "getaddrinfo"}

Queried(w, rdtype) == \E i \in 1..Len(qlog[w]) : qlog[w][i] = rdtype

DnsFieldsAbsent(p) ==
    /\ task[p].dns_ns = "absent" /\ task[p].dns_a = "absent"
    /\ task[p].dns_aaaa = "absent" /\ task[p].dns_mx = "absent"

\* C9 as claimed: NS is queried first; A, AAAA and MX are queried only when
\* the NS query succeeded; NXDOMAIN records no DNS field; a server failure
\* sets dns_ns to the sentinel.
C9_AllAfterNsSuccess ==
    \A w \in Workers :
        (InJob(w) /\ opt.extdns) =>
            /\ qlog[w] # <<>> => qlog[w][1] = "NS"
            /\ (Queried(w, "A") \/ Queried(w, "AAAA") \/ Queried(w, "MX"))
                  => nsres[w] = "answer"
            /\ nsres[w] = "nxdomain" => DnsFieldsAbsent(cur[w])
            /\ nsres[w] = "servfail" => task[cur[w]].dns_ns = "servfail"

\* C9 as amended: NS is queried first; A and AAAA are queried exactly when
\* the NS query did not yield NXDOMAIN (also after a server failure or
\* another resolver error), MX exactly when the NS query succeeded; NXDOMAIN
\* records no DNS field; a server failure sets dns_ns to the sentinel.
C9_QueriesAfterNs ==
    \A w \in Workers :
        (InJob(w) /\ opt.extdns) =>
            /\ qlog[w] # <<>> => qlog[w][1] = "NS"
            /\ Queried(w, "A") => nsres[w] # "nxdomain"
            /\ Queried(w, "AAAA") => nsres[w] # "nxdomain"
            /\ Queried(w, "MX") => nsres[w] = "answer"
            /\ DnsDone(w) =>
                  /\ nsres[w] # "nxdomain" => Queried(w, "A") /\ Queried(w, "AAAA")
                  /\ nsres[w] = "answer" => Queried(w, "MX")
            /\ nsres[w] = "nxdomain" => DnsFieldsAbsent(cur[w])
            /\ nsres[w] = "servfail" => task[cur[w]].dns_ns = "servfail"

\* the NS query failed at the server and A and AAAA were queried all the same
C9_Witness ==
    \E w \in Workers :
        /\ DnsDone(w) /\ nsres[w] = "servfail"
        /\ qlog[w] = <<"NS", "A", "AAAA">>
        /\ task[cur[w]].dns_a = "real"

StageRank(s) ==
    CASE s = "dns" -> 1 [] s = "mxcheck" -> 2 [] s = "geoip" -> 3
      [] s = "banners" -> 4 [] s = "phash" -> 5 [] s = "lsh" -> 6

\* C10: the stages of a job run in the order DNS, MX-probe, GeoIP, banners,
\* pHash, LSH, and an annotation is present only with a real answer of the
\* record it depends on: geoip and banner_http with dns_a, banner_smtp and
\* mx_spy with dns_mx, phash and the LSH score with dns_a or dns_aaaa.
C10_StagesInOrder ==
    /\ \A w \in Workers :
          /\ stages[w] # <<>> => stages[w][1] = "dns"
          /\ \A i, j \in 1..Len(stages[w]) :
                i < j => StageRank(stages[w][i]) <= StageRank(stages[w][j])
    /\ \A p \in Perms :
          /\ (task[p].geoip \/ task[p].banner_http) => task[p].dns_a = "real"
          /\ (task[p].banner_smtp \/ task[p].mx_spy) => task[p].dns_mx = "real"
          /\ (task[p].phash \/ task[p].lsh)
                => (task[p].dns_a = "real" \/ task[p].dns_aaaa = "real")

\* a job went through all six stages and every annotation was stored
C10_Witness ==
    \E w \in Workers :
        /\ pc[w] = "task_done"
        /\ stages[w] = <<"dns", "mxcheck", "geoip", "banners", "banners",
                         "phash", "lsh">>
        /\ task[cur[w]].geoip /\ task[cur[w]].banner_http
        /\ task[cur[w]].banner_smtp /\ task[cur[w]].mx_spy
        /\ task[cur[w]].phash /\ task[cur[w]].lsh

\* ---------------------------------------------------------------- C11
\* C11: a failed baseline fetch of the seed page does not abort the run
\* (LSH is disabled and the scan and the output still take place).
C11_BaselineFailureContinues ==
    baseline.outcome = "error" => mainpc # "aborted"

\* ---------------------------------------------------------------- C12
\* C12: a permutation has an ssdeep/tlsh score only if LSH is enabled, its
\* A or AAAA lookup succeeded, its page was fetched and the fetched URL
\* without its query differs from the baseline's; a page at the baseline's
\* URL gets no score; every score is in 0..100.
C12_ScoreOnlyForOtherPage ==
    \A p \in Perms :
        /\ task[p].lsh =>
              /\ opt.lsh
              /\ task[p].dns_a = "real" \/ task[p].dns_aaaa = "real"
              /\ fetched[p] \in PageUrls
              /\ StripQuery(fetched[p]) # lsh_effective_url
              /\ score[p] \in 0..100
        /\ ~task[p].lsh => score[p] = NoScore
        /\ fetched[p] \in {"seed", "seed?q"} => ~task[p].lsh

C12_Witness ==
    \E p \in Perms :
        /\ task[p].lsh /\ score[p] = 99 /\ fetched[p] = "other"
        /\ done[p] = 1

\* ---------------------------------------------------------------- C13
\* C13: no step of the scan changes the fuzzer or the domain of a
\* permutation; a record changes only while a worker holds it as its job,
\* and only by gaining fields.
C13_ScannerOnlyAdds ==
    [][\A p \in Perms :
          /\ task'[p].fuzzer = task[p].fuzzer
          /\ task'[p].domain = task[p].domain
          /\ task'[p] # task[p] =>
                /\ \E w \in Workers : cur[w] = p /\ InJob(w)
                /\ \A f \in DnsFields :
                      task[p][f] # "absent" => task'[p][f] = task[p][f]
                /\ \A f \in Annotations : task[p][f] => task'[p][f]]_vars

C13_Witness ==
    \E p \in Perms :
        /\ p # SeedDomain /\ done[p] = 1
        /\ task[p].dns_a = "real" /\ task[p].geoip /\ task[p].banner_http
        /\ task[SeedDomain] = NewPermutation(SeedDomain)

\* ---------------------------------------------------------------- C18
\* C18: a permutation is registered (its record has more than the two
\* fields fuzzer and domain) exactly when one of dns_ns, dns_a, dns_aaaa,
\* dns_mx is present, the '!ServFail' sentinel included.
C18_RegisteredIffDns ==
    \A p \in Perms :
        is_registered(task[p]) <=> \E f \in DnsFields : task[p][f] # "absent"

C18_Witness ==
    \E p \in Perms :
        /\ done[p] = 1
        /\ task[p].dns_ns = "servfail"
        /\ \A f \in DnsFields \ {"dns_ns"} : task[p][f] = "absent"
        /\ is_registered(task[p])

\* ---------------------------------------------------------------- C19
\* C19: after a scan in which no permutation, the seed included, obtained
\* a DNS record, the registered filter yields nothing and the unregistered
\* filter yields every permutation but the '*original' one.
C19_FiltersWithoutDns ==
    (/\ mainpc = "output"
     /\ \A p \in domains : done[p] = 1
     /\ \A p \in domains : \A f \in DnsFields : task[p][f] = "absent")
    => /\ listed.registered => listed.out = <<>>
       /\ listed.unregistered =>
             {listed.out[i] : i \in 1..Len(listed.out)}
                = domains \ {SeedDomain}

\* ------------------------------------------------- claims on the engine
\* generate() has returned
Generated == fzpc \in {"generated", "listed"}

\* the seed as generate() emits it
SeedFqdn == Punycode(Fqdn(seed, tld))

\* ---------------------------------------------------------------- C14
\* C14: whatever fuzzers generate() is given, a permutation whose domain
\* is the seed carries the tag '*original': no fuzzer emits the seed under
\* its own tag.
C14_SeedOnlyAsOriginal ==
    Generated =>
        \A p \in fzdomains : p.domain = SeedFqdn => p.fuzzer = "*original"

\* ---------------------------------------------------------------- C15
\* C15 as stated: after generate() every domain is 4..253 characters long
\* and made of labels of 1..63 characters from [a-z0-9-], none of which
\* starts or ends with '-', the last of 2..63 characters.
C15_EveryLabelStrict ==
    Generated =>
        \A p \in fzdomains :
            LET ls == Split(p.domain)
            IN /\ Len(p.domain) >= 4 /\ Len(p.domain) <= 253
               /\ Len(ls) >= 2
               /\ Len(ls[Len(ls)]) >= 2
               /\ \A i \in 1..Len(ls) :
                    /\ Len(ls[i]) >= 1 /\ Len(ls[i]) <= 63
                    /\ Range(ls[i]) \subseteq chars
                    /\ ls[i][1] # "-" /\ ls[i][Len(ls[i])] # "-"

\* C15, amended: after generate() every domain is 4..253 characters long;
\* its labels but the last have 1..63 characters from [A-Za-z0-9-] and
\* neither start nor end with '-'; the last label has 2..63 characters
\* from [A-Za-z0-9-], where '-' may come first or last. A candidate that
\* failed encoding, or this rule, is absent.
C15_MatchesRegex ==
    Generated =>
        \A p \in fzdomains :
            LET ls == Split(p.domain)
                n == Len(ls)
            IN /\ p.domain # <<>>
               /\ Len(p.domain) \in 4..253
               /\ n >= 2
               /\ \A i \in 1..n :
                    /\ Len(ls[i]) \in (IF i = n THEN 2 ELSE 1)..63
                    /\ \A j \in 1..Len(ls[i]) :
                         ls[i][j] \in chars \cup Range(Upper)
                    /\ i < n => ls[i][1] # "-" /\ ls[i][Len(ls[i])] # "-"

\* bitsquatting turned the leading 'm' into '-', and that candidate is gone
C15_Witness ==
    /\ fzpc = "generated"
    /\ "bitsquatting" \in Range(Names)
    /\ Len(seed) >= 2 /\ seed[1] = "m"
    /\ Put(seed, 1, <<"-">>) \in _bitsquatting(seed)
    /\ fzdomains # {}
    /\ \A p \in fzdomains : p.domain # Fqdn(Put(seed, 1, <<"-">>), tld)

\* ---------------------------------------------------------------- C16
\* C16: after generate() no two permutations of the set have the same
\* domain, whichever fuzzers made them and also when they became equal
\* only by the re-encoding.
C16_UniqueDomains ==
    Generated =>
        \A p, q \in fzdomains : p.domain = q.domain => p = q

\* transposition made the seed again, and under the idna package a
\* bitsquatting candidate and a tld-swap candidate both became ''
C16_Witness ==
    /\ fzpc = "generated"
    /\ fuzzers = <<>> /\ strict
    /\ seed \in _transposition(seed)
    /\ <<"c", "-">> \in Range(tlds)
    /\ \E d \in _bitsquatting(seed) : Punycode(Fqdn(d, tld)) = <<>>
    /\ Punycode(Fqdn(seed, <<"c", "-">>)) = <<>>
    /\ Cardinality(fzdomains) > 1

\* ---------------------------------------------------------------- C17
\* C17: when the original is included, exactly one permutation has the
\* seed as its domain, its tag is '*original' whatever later fuzzers make
\* the seed again, and it is the first of the list permutations() returns.
C17_OriginalFirst ==
    (Generated /\ Enabled("*original")) =>
        /\ {p \in fzdomains : p.domain = SeedFqdn}
              = {Permutation("*original", SeedFqdn)}
        /\ fzpc = "listed" => ordered[1] = Permutation("*original", SeedFqdn)

C17_Witness ==
    /\ fzpc = "listed"
    /\ fuzzers = <<"vowel-swap", "*original", "homoglyph">>
    /\ seed \in _vowel_swap(seed) /\ seed \in _homoglyph(seed)
    /\ Len(ordered) > 1
    /\ ordered[1].fuzzer = "*original"

\* ---------------------------------------------------------------- C20
\* the column of a key in the header csv() wrote
Col(k) == IndexOf(cols(rows), k)

\* C20: read back, the CSV text has as many cells in every row as in the
\* header, every string-valued annotation comes back exactly as it was
\* (also one that holds ',' or '"'), and every list-valued field comes
\* back by splitting its cell on ';'.
C20_CsvRoundTrip ==
    fmtpc = "parsed" =>
        /\ Len(parsed) = Len(rows) + 1
        /\ \A i \in 1..Len(parsed) : Len(parsed[i]) = Len(parsed[1])
        /\ \A i \in 1..Len(rows) : \A k \in keys(rows[i]) \ {"fuzzer", "domain"} :
               /\ Col(k) <= Len(parsed[i + 1])
               /\ TypeOf(k) = "str" => parsed[i + 1][Col(k)] = rows[i][k][1]
               /\ TypeOf(k) = "list" =>
                      split(parsed[i + 1][Col(k)], ";") = rows[i][k][1]

\* every fuzzer has run and nothing is encoded or filtered yet
Collected == fzpc = "punycode"

\* the domains that carry a tag
Tagged(f) == {p.domain : p \in {q \in fzdomains : q.fuzzer = f}}

\* ---------------------------------------------------------------- C21
\* C21: whatever TLD dictionary the Fuzzer was given (any order, repeated
\* entries or not) and however often generate() ran, no permutation tagged
\* 'tld-swap' has the TLD of the seed.
C21_TldSwapChangesTld ==
    \A d \in Tagged("tld-swap") : domain_tld(d)[3] # tld

\* ---------------------------------------------------------------- C22
\* C22: every transposition of a label is the label with one pair of
\* adjacent, different characters swapped; a pair of equal characters
\* gives nothing, so the label itself never comes out.
C22_SwapsDistinctPair ==
    Collected =>
        \A d \in Tagged("transposition") :
            \E i \in 1..(Len(seed) - 1) :
                /\ seed[i] # seed[i + 1]
                /\ d = Fqdn(SubSeq(seed, 1, i - 1) \o <<seed[i + 1], seed[i]>>
                              \o SubSeq(seed, i + 2, Len(seed)), tld)

\* ---------------------------------------------------------------- C23
\* C23: a second run on the same input, on a fresh Fuzzer or by calling
\* generate() again, gives the same domains with the same tags as the
\* first.
C23_SameOutputTwice ==
    (fzpc = "generated" /\ calls > 1) => fzdomains = first

\* ---------------------------------------------------------------- C24
\* C24 as stated: for a seed whose TLD has a dot and fuzzers = ['various']
\* the output has label.<last TLD component>, has label followed by the
\* TLD without its dots under .com, and has no 'various' entry that is the
\* seed.
C24_DotlessUnderCom ==
    (Generated /\ fuzzers = <<"various">> /\ "." \in Range(tld)) =>
        /\ Punycode(Fqdn(seed, Split(tld)[Len(Split(tld))])) \in Tagged("various")
        /\ Punycode(Fqdn(seed \o SelectSeq(tld, LAMBDA c : c # "."),
                         <<"c", "o", "m">>)) \in Tagged("various")
        /\ SeedFqdn \notin Tagged("various")

\* C24, amended: for a seed whose TLD has a dot and fuzzers = ['various']
\* the output has label.<last TLD component> and the label immediately
\* followed by the TLD, dots kept (exampleco.uk), each when it is a valid
\* FQDN, and has no 'various' entry that is the seed.
C24_LabelThenTld ==
    (Generated /\ fuzzers = <<"various">> /\ "." \in Range(tld)) =>
        /\ \A d \in {Fqdn(seed, Split(tld)[Len(Split(tld))]),
                     Join(subdomain, seed \o tld)} :
              VALID_FQDN_REGEX(Punycode(d)) => Punycode(d) \in Tagged("various")
        /\ SeedFqdn \notin Tagged("various")

\* 'af.co.uk' gave 'af.uk' and 'afco.uk'
C24_Witness ==
    /\ fzpc = "generated" /\ fuzzers = <<"various">>
    /\ seed = <<"a", "f">> /\ subdomain = <<>>
    /\ tld = <<"c", "o", ".", "u", "k">>
    /\ Tagged("various") = {<<"a", "f", ".", "u", "k">>,
                            <<"a", "f", "c", "o", ".", "u", "k">>}

\* ---------------------------------------------------------------- C25
\* C25: the cyrillic fuzzer emits the label with every mapped letter
\* replaced whenever at least one character changed, also for a label that
\* mixes mapped and unmapped characters, and emits nothing only when no
\* character changed.
C25_CyrillicWhenAnyChanged ==
    (Collected /\ fuzzers = <<"cyrillic">>) =>
        LET c == [i \in 1..Len(seed) |-> latin_to_cyrillic(seed[i])]
        IN  Tagged("cyrillic") = IF c # seed THEN {Fqdn(c, tld)} ELSE {}

\* ---------------------------------------------------------------- C26
\* C26: the subdomain fuzzer emits label[:i] + '.' + label[i:] for every
\* i in 1..len-1 whose two neighbours are neither '-' nor '.', the split
\* before the last character included, and nothing else.
C26_SplitsEveryInterior ==
    (Collected /\ fuzzers = <<"subdomain">>) =>
        Tagged("subdomain") =
            {Fqdn(SubSeq(seed, 1, i) \o <<".">> \o SubSeq(seed, i + 1, Len(seed)),
                  tld) :
               i \in {j \in 1..(Len(seed) - 1) :
                        seed[j] \notin {"-", "."} /\ seed[j + 1] \notin {"-", "."}}}

\* ---------------------------------------------------------------- C27
\* C27: the comparison permutations are sorted with is a strict total
\* order on a set that mixes registered and unregistered entries: no entry
\* is below itself, the comparison is transitive, and the sorted list is
\* the same whatever order the set is iterated in.
C27_StrictTotalOrder ==
    fzpc = "sorted" =>
        /\ \A p \in fzdomains : ~__lt__(p, p)
        /\ \A p, q, r \in fzdomains :
              (__lt__(p, q) /\ __lt__(q, r)) => __lt__(p, r)
        /\ \A a \in Orderings(fzdomains) : list_sort(a) = ordered

\* ---------------------------------------------------------------- C28
\* C28: the wait of the main thread ends: once every worker thread has
\* terminated (queue drained, stop requested, or dead during start-up
\* before it took a job) the progress loop of run() breaks, and the
\* results are listed and formatted only when no worker is running.
C28_WaitEnds ==
    /\ (mode = "cli" /\ mainpc = "wait" /\ \A w \in threads : ~IsAlive(w)) =>
          /\ Cardinality(domains) - Len(jobs) # 0
          /\ jobs = <<>> \/ \A w \in threads : ~IsAlive(w)
    /\ (mode = "cli" /\ mainpc \in {"done", "output"}) =>
          \A w \in threads : ~IsAlive(w)

\* ---------------------------------------------------------------- C29
\* C29: however POST /api/scans requests, the janitor and stop requests
\* interleave, no more than SESSION_MAX sessions have a non-empty job
\* queue at a time, and a request that finds the limit reached is refused
\* and makes no session.
C29_SessionLimit ==
    /\ Cardinality({s \in Requests : sess[s].made /\ sess[s].jobs > 0})
          <= SESSION_MAX
    /\ \A r \in Requests : req[r] = "too_many" => ~sess[r].made

\* ---------------------------------------------------------------- C30
\* C30: Whois.query ends by returning, whatever the servers answer: it
\* follows 'refer:' lines from server to server and returns a response
\* after finitely many lookups, also when servers refer to each other or
\* to themselves (it does not go on until the interpreter stops it), and
\* a timeout or a resolution error returns the empty string.
C30_QueryReturns == whpc # "recursion_error"

====
